---- MODULE Spec2Model ----
(***************************************************************************)
(* A model of the LeerCapitulo scraper (backend/app/scraper.py).           *)
(*                                                                         *)
(* Strings are sequences of tokens.  A token stands for a literal piece of *)
(* text ("Cap", "hace", "/manga/", ".jpg", one digit, one blank, ...), so  *)
(* that substring tests, regular-expression matches and prefix/suffix      *)
(* tests of the source are computed on the token sequence the way the      *)
(* source computes them on characters.  Letter tokens stand for any        *)
(* spelling in upper or lower case (the source lower-cases or matches      *)
(* with re.IGNORECASE everywhere such a token is tested).                  *)
(*                                                                         *)
(* Each scraper operation is a coroutine: the code between two awaits      *)
(* runs atomically and is one action.  The document an operation works on  *)
(* is an input that arrives with the fetch (or the navigation).            *)
(***************************************************************************)
EXTENDS Integers, Sequences, FiniteSets, TLC

VARIABLES
    op,       \* the operation being run, "none" before the call
    pc,       \* position of the coroutine
    arg,      \* the call's arguments
    doc,      \* the fetched / rendered document, once there is one
    ret,      \* the value returned
    driver,   \* the Playwright driver of get_chapter_images
    browser,  \* the browser get_chapter_images launched
    calls,    \* scraper calls in flight together: each call's own state
    site,     \* the chapter list the site serves for the manga
    chapter_status,  \* table chapter_status: the rows of one user and manga
    library,  \* table library: the entry of that user and manga
    reqs      \* the requests being handled: each handler's position and locals

\* the state of concurrent scraper calls and of the route handlers
concurrentVars == <<calls, site, chapter_status, library, reqs>>

vars == <<op, pc, arg, doc, ret, driver, browser,
          calls, site, chapter_status, library, reqs>>

(***************************************************************************)
(* Bounds of the model.                                                    *)
(***************************************************************************)
MaxNameLen == 5      \* tokens in a chapter name
MaxDateLen == 6      \* tokens in a date text
NowHours == 17758126 \* the clock: 2026-11-02T22:00, in hours since datetime.min
MaxListAnchors == 3  \* anchors of a listing page
MaxPage == 2         \* requested page index
MaxDetailEls == 3    \* title-bearing elements of a detail page
MaxChapterAnchors == 3  \* chapter anchors of a manga page
MaxOptions == 2      \* <option>s of the rendered chapter page
MaxImgs == 3         \* <img>s of the rendered chapter page

(***************************************************************************)
(* Token strings.                                                          *)
(***************************************************************************)
Strings(alphabet, n) == UNION { [1..k -> alphabet] : k \in 0..n }

DigitTokens == {"0", "1", "2", "3", "4", "5", "6", "7", "8", "9"}

IsDigit(c) == c \in DigitTokens

DigitVal(c) ==
    CASE c = "0" -> 0 [] c = "1" -> 1 [] c = "2" -> 2 [] c = "3" -> 3
      [] c = "4" -> 4 [] c = "5" -> 5 [] c = "6" -> 6 [] c = "7" -> 7
      [] c = "8" -> 8 [] c = "9" -> 9

At(s, i, tok) == i >= 1 /\ i <= Len(s) /\ s[i] = tok

DigitAt(s, i) == i >= 1 /\ i <= Len(s) /\ IsDigit(s[i])

\* s[a .. b-1]
Slice(s, a, b) == IF b <= a THEN << >> ELSE SubSeq(s, a, b - 1)

\* "tok in s" for a one-token needle
Contains(s, tok) == \E i \in 1..Len(s) : s[i] = tok

\* "needle in s" for a needle of several tokens
ContainsSeq(s, needle) ==
    \E i \in 1..(Len(s) - Len(needle) + 1) :
        \A k \in 1..Len(needle) : s[i + k - 1] = needle[k]

Min(S) == CHOOSE x \in S : \A y \in S : x <= y

\* str.strip(): blanks removed at both ends
RECURSIVE LStrip(_)
LStrip(s) == IF s # << >> /\ Head(s) = " " THEN LStrip(Tail(s)) ELSE s

RECURSIVE RStrip(_)
RStrip(s) ==
    IF s # << >> /\ s[Len(s)] = " " THEN RStrip(SubSeq(s, 1, Len(s) - 1)) ELSE s

Strip(s) == LStrip(RStrip(s))

\* int() of a run of decimal digits
RECURSIVE DecVal(_)
DecVal(ds) ==
    IF ds = << >> THEN 0
    ELSE 10 * DecVal(SubSeq(ds, 1, Len(ds) - 1)) + DigitVal(ds[Len(ds)])

\* the end (exclusive) of the longest run of digits starting at i: greedy \d+
RECURSIVE DigitsEnd(_, _)
DigitsEnd(s, i) == IF DigitAt(s, i) THEN DigitsEnd(s, i + 1) ELSE i

\* the end (exclusive) of the longest run of blanks starting at i: greedy \s*
RECURSIVE BlanksEnd(_, _)
BlanksEnd(s, i) == IF At(s, i, " ") THEN BlanksEnd(s, i + 1) ELSE i

(***************************************************************************)
(* CHAPTER_NUMBER_RE                                                       *)
(*   (?:Cap[ií]tulo|Cap\.?|Chapter|Ch\.?)\s*(\d+(?:\.\d+)?)   IGNORECASE   *)
(* over the tokens "Cap", "itulo" (for "ítulo" and "itulo"), "Ch",         *)
(* "apter", ".", " ", digits and "x" (any other character).  Names are    *)
(* enumerated over the digit "1"; documents also use other digits.         *)
(***************************************************************************)
NameAlphabet == {"Cap", "itulo", "Ch", "apter", ".", " ", "1", "x"}

\* The ends (exclusive) of the marker alternatives that match at i, in the
\* order the backtracking matcher tries them.
MarkerEnds(s, i) ==
       (IF At(s, i, "Cap") /\ At(s, i + 1, "itulo") THEN <<i + 2>> ELSE << >>)
    \o (IF At(s, i, "Cap")
        THEN (IF At(s, i + 1, ".") THEN <<i + 2>> ELSE << >>) \o <<i + 1>>
        ELSE << >>)
    \o (IF At(s, i, "Ch") /\ At(s, i + 1, "apter") THEN <<i + 2>> ELSE << >>)
    \o (IF At(s, i, "Ch")
        THEN (IF At(s, i + 1, ".") THEN <<i + 2>> ELSE << >>) \o <<i + 1>>
        ELSE << >>)

\* The ends of \s* from j, longest first (greedy, then backtracking).
BlankEnds(s, j) == [n \in 1..(BlanksEnd(s, j) - j + 1) |-> BlanksEnd(s, j) - n + 1]

\* The starts of group 1 for a match attempt at i, in the matcher's order.
GroupStarts(s, i) ==
    LET ends == MarkerEnds(s, i)
        RECURSIVE Collect(_)
        Collect(n) ==
            IF n > Len(ends) THEN << >>
            ELSE SelectSeq(BlankEnds(s, ends[n]), LAMBDA k : DigitAt(s, k))
                 \o Collect(n + 1)
    IN  Collect(1)

\* group(1) of the match whose group starts at d: \d+(?:\.\d+)?
GroupEnd(s, d) ==
    LET e == DigitsEnd(s, d)
    IN  IF At(s, e, ".") /\ DigitAt(s, e + 1) THEN DigitsEnd(s, e + 1) ELSE e

NoMatch == [start |-> 0, end |-> 0]

\* pattern.match at position i
MatchAt(s, i) ==
    LET starts == GroupStarts(s, i)
    IN  IF starts = << >> THEN NoMatch
        ELSE [start |-> starts[1], end |-> GroupEnd(s, starts[1])]

\* re.match: the pattern anchored at the start of the string
CHAPTER_NUMBER_RE_match(s) == MatchAt(s, 1)

\* CHAPTER_NUMBER_RE.search(s): the leftmost position with a match
CHAPTER_NUMBER_RE_search(s) ==
    LET RECURSIVE Scan(_)
        Scan(i) ==
            IF i > Len(s) THEN NoMatch
            ELSE IF MatchAt(s, i) # NoMatch THEN MatchAt(s, i)
            ELSE Scan(i + 1)
    IN  Scan(1)

\* float() of "ddd" or "ddd.ddd": the whole part and the digits of the
\* fraction without its trailing zeros
RECURSIVE DropTrailingZeros(_)
DropTrailingZeros(ds) ==
    IF ds # << >> /\ ds[Len(ds)] = "0"
    THEN DropTrailingZeros(SubSeq(ds, 1, Len(ds) - 1))
    ELSE ds

Float(txt) ==
    LET e == DigitsEnd(txt, 1)
    IN  [whole |-> DecVal(Slice(txt, 1, e)),
         frac  |-> DropTrailingZeros(Slice(txt, e + 1, Len(txt) + 1))]

MinusOne == [whole |-> -1, frac |-> << >>]

\* chapter_number = float(match.group(1)) if match else -1
ChapterNumber(raw_name) ==
    LET m == CHAPTER_NUMBER_RE_search(raw_name)
    IN  IF m # NoMatch THEN Float(Slice(raw_name, m.start, m.end)) ELSE MinusOne

(***************************************************************************)
(* Dates.  A datetime is a number of hours since datetime.min              *)
(* (0001-01-01T00:00); every unit of _parse_relative_date is a whole       *)
(* number of hours.  isoformat() writes a datetime out one-to-one, so an   *)
(* ISO string is modelled by the datetime it writes.                       *)
(***************************************************************************)
\* Tokens of a date text: "hace", the unit words "hora", "dia" (for "día"
\* and "dia"), "semana", "mes", the digit "2", "000" (three zeros), "/" and
\* "x" (any other character).
DateAlphabet == {"hace", "hora", "dia", "semana", "mes", "2", "000", "/", "x"}

\* the characters of a date text: "000" is three digits
RECURSIVE Chars(_)
Chars(s) ==
    IF s = << >> THEN << >>
    ELSE (IF Head(s) = "000" THEN <<"0", "0", "0">> ELSE <<Head(s)>>)
         \o Chars(Tail(s))

\* Python integers are unbounded; every amount above Saturated lies further
\* back than datetime.min for every unit and every modelled clock, so
\* amounts are counted up to Saturated.
Saturated == 20000000

RECURSIVE IntOf(_)
IntOf(ds) ==
    IF ds = << >> THEN 0
    ELSE LET hi == IntOf(SubSeq(ds, 1, Len(ds) - 1))
         IN  IF hi >= Saturated \div 10 THEN Saturated
             ELSE 10 * hi + DigitVal(ds[Len(ds)])

\* re.findall(r"\d+", s): the runs of digits, left to right
RECURSIVE FindallDigits(_, _)
FindallDigits(c, i) ==
    IF i > Len(c) THEN << >>
    ELSE IF DigitAt(c, i)
         THEN <<Slice(c, i, DigitsEnd(c, i))>> \o FindallDigits(c, DigitsEnd(c, i))
         ELSE FindallDigits(c, i + 1)

None == [kind |-> "none"]
Str(s) == [kind |-> "str", value |-> s]
OverflowError == [kind |-> "raise", exc |-> "OverflowError"]
Datetime(h) == [kind |-> "datetime", hours |-> h]

\* timedelta(days=d) raises OverflowError beyond this many days
TimedeltaMaxDays == 999999999

\* now - timedelta(hours = number * unit_hours): OverflowError when the
\* timedelta is out of range or the difference lies before datetime.min
Before(now, number, unit_hours) ==
    IF unit_hours >= 24 /\ number > TimedeltaMaxDays \div (unit_hours \div 24)
    THEN OverflowError
    ELSE IF number > now \div unit_hours THEN OverflowError
    ELSE Datetime(now - number * unit_hours)

_parse_relative_date(date_str, now) ==
    IF ~Contains(date_str, "hace") THEN None
    ELSE LET digits == FindallDigits(Chars(date_str), 1)
             number == IF digits # << >> THEN IntOf(digits[1]) ELSE 0
         IN  IF Contains(date_str, "hora") THEN Before(now, number, 1)
             ELSE IF Contains(date_str, "dia") THEN Before(now, number, 24)
             ELSE IF Contains(date_str, "semana") THEN Before(now, number, 24 * 7)
             ELSE IF Contains(date_str, "mes") THEN Before(now, number, 24 * 30)
             ELSE None

\* ---- datetime.strptime(s, "%d/%m/%Y") ----
IsLeap(y) == y % 4 = 0 /\ (y % 100 # 0 \/ y % 400 = 0)

DaysInMonth(y, m) ==
    IF m = 2 THEN (IF IsLeap(y) THEN 29 ELSE 28)
    ELSE IF m \in {4, 6, 9, 11} THEN 30 ELSE 31

RECURSIVE DaysBeforeMonth(_, _)
DaysBeforeMonth(y, m) ==
    IF m = 1 THEN 0 ELSE DaysBeforeMonth(y, m - 1) + DaysInMonth(y, m - 1)

DaysBeforeYear(y) ==
    (y - 1) * 365 + (y - 1) \div 4 - (y - 1) \div 100 + (y - 1) \div 400

\* %d: 3[0-1]|[1-2]\d|0[1-9]|[1-9]     %m: 1[0-2]|0[1-9]|[1-9]
DayText(t) ==
    /\ Len(t) \in {1, 2}
    /\ \A k \in 1..Len(t) : IsDigit(t[k])
    /\ DecVal(t) \in 1..31

MonthText(t) ==
    /\ Len(t) \in {1, 2}
    /\ \A k \in 1..Len(t) : IsDigit(t[k])
    /\ DecVal(t) \in 1..12

ValueError == [kind |-> "raise", exc |-> "ValueError"]

\* The day and the month end at the first and the second "/", the year is
\* four digits and nothing may follow it; the date must exist.
Strptime(s) ==
    LET c == Chars(s)
        slashes == { i \in 1..Len(c) : c[i] = "/" }
    IN  IF Cardinality(slashes) < 2 THEN ValueError
        ELSE LET s1 == Min(slashes)
                 s2 == Min(slashes \ {s1})
                 d  == Slice(c, 1, s1)
                 m  == Slice(c, s1 + 1, s2)
                 y  == Slice(c, s2 + 1, Len(c) + 1)
             IN  IF /\ DayText(d) /\ MonthText(m)
                    /\ Len(y) = 4 /\ \A k \in 1..4 : IsDigit(y[k])
                    /\ DecVal(y) >= 1
                    /\ DecVal(d) <= DaysInMonth(DecVal(y), DecVal(m))
                 THEN Datetime(24 * (DaysBeforeYear(DecVal(y))
                                     + DaysBeforeMonth(DecVal(y), DecVal(m))
                                     + DecVal(d) - 1))
                 ELSE ValueError

Iso(dt) == [kind |-> "iso", hours |-> dt.hours]

\* An exception of _parse_relative_date is raised outside the try block and
\* leaves _parse_date; a ValueError of strptime is caught.
_parse_date(date_str, now) ==
    IF date_str = << >> THEN None
    ELSE LET dt == _parse_relative_date(Strip(date_str), now)
         IN  IF dt.kind = "raise" THEN dt
             ELSE IF dt.kind = "datetime" THEN Iso(dt)
             ELSE LET abs == Strptime(Strip(date_str))
                  IN  IF abs.kind = "datetime" THEN Iso(abs) ELSE None

(***************************************************************************)
(* _clean_title.  A title is a string over letters, blanks and the three   *)
(* site suffixes, each suffix one token.                                   *)
(***************************************************************************)
TITLE_SUFFIXES ==
    << " - Read Manga Online leercapitulo.co",
       " - Leer Manga Online leercapitulo.co",
       " - leercapitulo.co" >>

EndsWith(s, tok) == s # << >> /\ s[Len(s)] = tok

\* A suffix begins with a blank: with that blank stripped it is another
\* text, which ends with none of the suffixes.
Unblanked(tok) ==
    CASE tok = TITLE_SUFFIXES[1] -> "- Read Manga Online leercapitulo.co"
      [] tok = TITLE_SUFFIXES[2] -> "- Leer Manga Online leercapitulo.co"
      [] tok = TITLE_SUFFIXES[3] -> "- leercapitulo.co"
      [] OTHER -> tok

\* title.strip(), for a title whose first text after the blanks may be a suffix
StripTitle(t) ==
    IF Strip(t) = << >> THEN << >>
    ELSE <<Unblanked(Head(Strip(t)))>> \o Tail(Strip(t))

_clean_title(title) ==
    LET RECURSIVE Loop(_, _)
        Loop(t, n) ==
            IF n > Len(TITLE_SUFFIXES) THEN t
            ELSE IF EndsWith(t, TITLE_SUFFIXES[n])
                 THEN Loop(SubSeq(t, 1, Len(t) - 1), n + 1)
                 ELSE Loop(t, n + 1)
    IN  StripTitle(Loop(title, 1))

(***************************************************************************)
(* Titles given to _clean_title: letters, blanks and the site suffixes.    *)
(***************************************************************************)
MaxTitleLen == 4

TitleAlphabet ==
    {"A", " "} \cup { TITLE_SUFFIXES[n] : n \in 1..Len(TITLE_SUFFIXES) }

(***************************************************************************)
(* _abs_url.  A URL is a string over the tokens "http" and "HTTP" (the     *)
(* four letters, in lower and in upper case), "s", "ftp", "a" (letters),   *)
(* ":" and "/".  urljoin is computed as urllib.parse computes it: the      *)
(* scheme is split off at the first ":" when only scheme characters        *)
(* precede it, and is lower-cased; "//" opens the network location; a      *)
(* relative path is joined to the base path, and its empty middle          *)
(* segments are dropped.  The modelled URLs have no query, fragment,       *)
(* parameters or dot segments.                                             *)
(***************************************************************************)
MaxUrlLen == 5

UrlAlphabet == {"http", "HTTP", "s", "ftp", "a", ":", "/"}

\* str.lower(), token by token
LowerToken(t) ==
    CASE t = "HTTP" -> "http"
      [] t = "Ongoing" -> "ongoing"
      [] t = "MANGA" -> "manga"
      [] t = "Manhwa" -> "manhwa"
      [] t = "Action" -> "action"
      [] t = "Comedy" -> "comedy"
      [] t = "En Curso" -> "en curso"
      [] t = "Finalizado" -> "finalizado"
      [] t = "Completado" -> "completado"
      [] t = "Hiatus" -> "hiatus"
      [] OTHER -> t

Lower(s) == [i \in 1..Len(s) |-> LowerToken(s[i])]

\* BASE_URL = "https://www.leercapitulo.co"
BASE_SCHEME == <<"http", "s">>
BASE_NETLOC == <<"www.leercapitulo.co">>
BASE_URL == BASE_SCHEME \o <<":", "/", "/">> \o BASE_NETLOC

\* url.startswith("http")
StartsWithHttp(url) == At(url, 1, "http")

\* urlsplit: the position of the ":" that ends the scheme, 0 without a scheme
SchemeColon(url) ==
    LET colons == { i \in 1..Len(url) : url[i] = ":" }
    IN  IF colons = {} THEN 0
        ELSE LET i == Min(colons)
             IN  IF i > 1 /\ \A k \in 1..(i - 1) : url[k] \notin {"/", " "}
                 THEN i ELSE 0

\* the end (exclusive) of the network location that starts at i
RECURSIVE NetlocEnd(_, _)
NetlocEnd(s, i) == IF i > Len(s) \/ s[i] = "/" THEN i ELSE NetlocEnd(s, i + 1)

\* path.split("/")
RECURSIVE SplitSlash(_)
SplitSlash(path) ==
    LET slashes == { i \in 1..Len(path) : path[i] = "/" }
    IN  IF slashes = {} THEN <<path>>
        ELSE <<Slice(path, 1, Min(slashes))>>
             \o SplitSlash(Slice(path, Min(slashes) + 1, Len(path) + 1))

\* "/".join(segments)
RECURSIVE JoinSlash(_)
JoinSlash(segments) ==
    IF segments = << >> THEN << >>
    ELSE IF Len(segments) = 1 THEN segments[1]
    ELSE segments[1] \o <<"/">> \o JoinSlash(Tail(segments))

\* segments[1:-1] = filter(None, segments[1:-1]), for segments[0] = ""
DropEmptyMiddle(segments) ==
    <<segments[1]>>
    \o SelectSeq(SubSeq(segments, 2, Len(segments) - 1), LAMBDA g : g # << >>)
    \o <<segments[Len(segments)]>>

\* urlunparse((scheme, netloc, path, "", "", "")) for a scheme with a netloc
Unparse(scheme, netloc, path) ==
    scheme \o <<":", "/", "/">> \o netloc
    \o (IF path # << >> /\ path[1] # "/" THEN <<"/">> ELSE << >>) \o path

\* urljoin(BASE_URL, url) for a non-empty url
Urljoin(url) ==
    LET c      == SchemeColon(url)
        scheme == IF c = 0 THEN BASE_SCHEME ELSE Lower(Slice(url, 1, c))
        rest   == Slice(url, c + 1, Len(url) + 1)
        slashes == At(rest, 1, "/") /\ At(rest, 2, "/")
        netloc == IF slashes THEN Slice(rest, 3, NetlocEnd(rest, 3)) ELSE << >>
        path   == IF slashes THEN Slice(rest, NetlocEnd(rest, 3), Len(rest) + 1)
                  ELSE rest
    IN  IF scheme # BASE_SCHEME THEN url
        ELSE IF netloc # << >> THEN Unparse(scheme, netloc, path)
        ELSE IF path = << >> THEN Unparse(scheme, BASE_NETLOC, << >>)
        ELSE IF path[1] = "/" THEN Unparse(scheme, BASE_NETLOC, path)
        ELSE Unparse(scheme, BASE_NETLOC,
                     JoinSlash(DropEmptyMiddle(<< << >> >> \o SplitSlash(path))))

_abs_url(url) ==
    IF url = << >> THEN << >>
    ELSE IF StartsWithHttp(url) THEN url
    ELSE Urljoin(url)

(***************************************************************************)
(* Listing pages.  The document of a listing is the sequence of its <a>    *)
(* elements in DOM order: href, text, class and rel.  The thumbnail lookup *)
(* of _parse_manga_list reads the tree around an accepted anchor and does  *)
(* not decide which items are emitted; items are modelled by url and title.*)
(***************************************************************************)
Anchor(href, text, cls, rel) ==
    [href |-> href, text |-> text, cls |-> cls, rel |-> rel]

MangaHrefs ==
    { <<"/manga/", "a">>, <<"/manga/", "b">>, <<"/manga/", "a", "/leer/", "1">> }

MangaTexts == { <<" ">>, <<"A">>, <<"B", " - leercapitulo.co">> }

PageHrefs ==
    { <<"?", "page=", "2">>, <<"?", "page=", "3">>, <<"?", "page=", "2", "1">> }

ListAnchors ==
         { Anchor(h, t, "", "") : h \in MangaHrefs, t \in MangaTexts }
    \cup { Anchor(h, <<"x">>, "", "") : h \in PageHrefs }
    \cup { Anchor(<<"#">>, <<"x">>, "next", ""), Anchor(<<"#">>, <<"x">>, "", "next") }

ListDocs == UNION { [1..k -> ListAnchors] : k \in 0..MaxListAnchors }

\* seen_urls is not consulted: every accepted anchor is emitted
_parse_manga_list_no_seen(soup) ==
    LET RECURSIVE Loop(_, _)
        Loop(i, mangas) ==
            IF i > Len(soup) THEN mangas
            ELSE LET link == soup[i]
                 IN  IF ~Contains(link.href, "/manga/") THEN Loop(i + 1, mangas)
                     ELSE IF Contains(link.href, "/leer/") \/ Strip(link.text) = << >>
                          THEN Loop(i + 1, mangas)
                     ELSE Loop(i + 1,
                               Append(mangas, [url |-> link.href,
                                               title |-> _clean_title(Strip(link.text))]))
    IN  Loop(1, << >>)

_parse_manga_list(soup) ==
    LET RECURSIVE Loop(_, _, _)
        Loop(i, mangas, seen_urls) ==
            IF i > Len(soup) THEN mangas
            ELSE LET link == soup[i]
                 IN  \* soup.select('a[href*="/manga/"]')
                     IF ~Contains(link.href, "/manga/")
                     THEN Loop(i + 1, mangas, seen_urls)
                     ELSE IF Contains(link.href, "/leer/") \/ Strip(link.text) = << >>
                          THEN Loop(i + 1, mangas, seen_urls)
                     ELSE IF link.href \in seen_urls
                          THEN Loop(i + 1, mangas, seen_urls)
                     ELSE Loop(i + 1,
                               Append(mangas, [url |-> link.href,
                                               title |-> _clean_title(Strip(link.text))]),
                               seen_urls \cup {link.href})
    IN  Loop(1, << >>, {})

\* f"{n}": the decimal digits of n >= 0
RECURSIVE ToDigits(_)
ToDigits(n) ==
    LET d == CHOOSE c \in DigitTokens : DigitVal(c) = n % 10
    IN  IF n < 10 THEN <<d>> ELSE Append(ToDigits(n \div 10), d)

\* a[href*='page={n}']
HrefHasPage(a, n) == ContainsSeq(a.href, <<"page=">> \o ToDigits(n))

\* the selector asks for the requested page itself
HasNextOfPageSamePage(soup, page) ==
    \E i \in 1..Len(soup) :
        HrefHasPage(soup[i], page) \/ soup[i].cls = "next" \/ soup[i].rel = "next"

\* select_one("a[href*='page={page + 1}'], a.next, a[rel='next']") is not None
HasNextOfPage(soup, page) ==
    \E i \in 1..Len(soup) :
        HrefHasPage(soup[i], page + 1) \/ soup[i].cls = "next" \/ soup[i].rel = "next"

\* select_one("a[href*='page=2'], a.next") is not None and page == 1
HasNextLatest(soup, page) ==
    /\ \E i \in 1..Len(soup) : HrefHasPage(soup[i], 2) \/ soup[i].cls = "next"
    /\ page = 1

\* [m for m in all_mangas if query_lower in m["title"].lower()]
FilterByQuery(all_mangas, query) ==
    SelectSeq(all_mangas, LAMBDA m : ContainsSeq(m.title, query))

Queries == { <<"A">> }

(***************************************************************************)
(* get_manga_detail.  The document is the sequence, in DOM order, of the   *)
(* elements its selectors can match.  An element carries its tag, class,   *)
(* property, text and content, the class of the container it lies in       *)
(* (within), the label of the sibling just before it (after: the tag and   *)
(* the word that sibling contains), and its href and src.  An attribute    *)
(* that is absent is the empty string: the code reads absent and empty     *)
(* attributes alike (get(..., ""), "or").                                  *)
(***************************************************************************)
Element(tag, cls, property, text, content) ==
    [tag |-> tag, cls |-> cls, property |-> property, text |-> text,
     content |-> content, within |-> "", after |-> "", href |-> << >>,
     src |-> << >>]

Within(container, el) == [el EXCEPT !.within = container]
AfterLabel(label, el) == [el EXCEPT !.after = label]
Link(href, text) == [Element("a", "", "", text, << >>) EXCEPT !.href = href]
Image(src) == [Element("img", "", "", << >>, << >>) EXCEPT !.src = src]

\* the elements of the title
TitleElements ==
         { Element("h1", "", "", t, << >>) :
               t \in { << >>, <<"A">>, <<"A", " - leercapitulo.co">> } }
    \cup { Element("div", "manga-title", "", t, << >>) : t \in { << >>, <<"B">> } }
    \cup { Element("meta", "", "og:title", << >>, c) :
               c \in { << >>, <<"C", " - Read Manga Online leercapitulo.co">> } }
    \cup { Element("p", "", "", <<"x">>, << >>) }

\* a paragraph of more than 100 characters is the token "Lorem"
Paragraph == <<"Lorem">>

\* the elements of the cover, author, artist, description, genres and status
OptionalElements ==
         { Element("meta", "", "og:image", << >>, c) :
               c \in { << >>, <<"/", "covers", "/", "a">> } }
    \cup { Within("cover", Image(<<" ", "http", "s", ":", "/", "/", "a", "/", "a">>)) }
    \cup { AfterLabel("span:Autor", Element("span", "", "", <<"A">>, << >>)) }
    \cup { Element("div", "artist", "", <<"B">>, << >>) }
    \cup { Element("p", "summary", "", << >>, << >>),
           Element("p", "", "", Paragraph, << >>) }
    \cup { Within("genres", Link(<<"/", "a">>, t)) :
               t \in { <<"Ongoing">>, <<"Action">>, <<" ", "MANGA">>, << >> } }
    \cup { Element("span", "genre", "", <<"Comedy">>, << >>) }
    \cup { Link(<<"/", "Action">>, t) : t \in { <<"Action">>, <<"Manhwa">> } }
    \cup { Element("div", "status", "", t, << >>) :
               t \in { <<"En Curso">>, <<"x", "Completado">>, <<"Hiatus">> } }
    \cup { AfterLabel("dt:Estado", Element("dd", "", "", <<"Finalizado">>, << >>)) }

DetailElements == TitleElements \cup OptionalElements

DetailDocs == UNION { [1..k -> DetailElements] : k \in 0..MaxDetailEls }

\* h1, .manga-title, meta[property='og:title']
MatchesTitleSelector(el) ==
    \/ el.tag = "h1"
    \/ el.cls = "manga-title"
    \/ (el.tag = "meta" /\ el.property = "og:title")

\* soup.select_one(selector list): the first element, in document order,
\* that matches any selector of the list; 0 when there is none
SelectOneTitle(soup) ==
    LET hits == { i \in 1..Len(soup) : MatchesTitleSelector(soup[i]) }
    IN  IF hits = {} THEN 0 ELSE Min(hits)

\* title_el.get_text(strip=True) or title_el.get("content", "")
DetailTitle(soup) ==
    LET title_el == SelectOneTitle(soup)
    IN  IF title_el = 0 THEN << >>
        ELSE _clean_title(IF Strip(soup[title_el].text) # << >>
                          THEN Strip(soup[title_el].text)
                          ELSE soup[title_el].content)

\* the positions, in document order, of the elements of soup that are in hits
Select(soup, hits) ==
    SelectSeq([i \in 1..Len(soup) |-> i], LAMBDA i : i \in hits)

\* the cover selectors, in the order the loop tries them
CoverSelectors == 9

MatchesCoverSelector(n, el) ==
    CASE n = 1 -> el.tag = "meta" /\ el.property = "og:image"
      [] n = 2 -> el.tag = "img" /\ ContainsSeq(el.src, <<"/", "covers", "/">>)
      [] n = 3 -> el.tag = "img" /\ ContainsSeq(el.src, <<"/", "uploads", "/">>)
      [] n = 4 -> el.tag = "img" /\ el.within = "cover"
      [] n = 5 -> el.tag = "img" /\ el.within = "manga-cover"
      [] n = 6 -> el.tag = "img" /\ el.within = "thumb"
      [] n = 7 -> el.tag = "img" /\ el.within = "poster"
      [] n = 8 -> el.tag = "img" /\ el.within = "article"
      [] n = 9 -> el.tag = "img" /\ el.within = "entry-content"

\* cover_el.get("content") or cover_el.get("data-src") or cover_el.get("src") or ""
CoverValue(el) == IF el.content # << >> THEN el.content ELSE el.src

\* the loop over the cover selectors: the first selector whose first match
\* gives a non-empty URL
DetailCover(soup) ==
    LET RECURSIVE Loop(_)
        Loop(n) ==
            IF n > CoverSelectors THEN << >>
            ELSE LET hits == { i \in 1..Len(soup) : MatchesCoverSelector(n, soup[i]) }
                 IN  IF hits = {} THEN Loop(n + 1)
                     ELSE LET cover == _abs_url(Strip(CoverValue(soup[Min(hits)])))
                          IN  IF cover # << >> THEN cover ELSE Loop(n + 1)
    IN  Loop(1)

\* .author, .autor, span:-soup-contains('Autor') + span, dt:-soup-contains('Autor') + dd
MatchesAuthorSelector(el) ==
    \/ el.cls \in {"author", "autor"}
    \/ (el.tag = "span" /\ el.after = "span:Autor")
    \/ (el.tag = "dd" /\ el.after = "dt:Autor")

\* .artist, .artista, span:-soup-contains('Artista') + span, dt:... + dd
MatchesArtistSelector(el) ==
    \/ el.cls \in {"artist", "artista"}
    \/ (el.tag = "span" /\ el.after = "span:Artista")
    \/ (el.tag = "dd" /\ el.after = "dt:Artista")

\* el.get_text(strip=True) if el else None, for the first element in hits
TextOrNone(soup, hits) ==
    IF hits = {} THEN None ELSE Str(Strip(soup[Min(hits)].text))

DetailAuthor(soup) ==
    TextOrNone(soup, { i \in 1..Len(soup) : MatchesAuthorSelector(soup[i]) })

DetailArtist(soup) ==
    TextOrNone(soup, { i \in 1..Len(soup) : MatchesArtistSelector(soup[i]) })

\* .synopsis, .sinopsis, .description, .descripcion, div.manga-desc, p.summary
MatchesDescriptionSelector(el) ==
    \/ el.cls \in {"synopsis", "sinopsis", "description", "descripcion"}
    \/ (el.tag = "div" /\ el.cls = "manga-desc")
    \/ (el.tag = "p" /\ el.cls = "summary")

\* len(text), in characters
TextLen(text) ==
    LET RECURSIVE Sum(_)
        Sum(i) == IF i > Len(text) THEN 0
                  ELSE (IF text[i] = "Lorem" THEN 120 ELSE 1) + Sum(i + 1)
    IN  Sum(1)

\* the description, or the first <p> of more than 100 characters
DetailDescription(soup) ==
    LET description ==
            TextOrNone(soup, { i \in 1..Len(soup) : MatchesDescriptionSelector(soup[i]) })
        long == { i \in 1..Len(soup) :
                    soup[i].tag = "p" /\ TextLen(Strip(soup[i].text)) > 100 }
    IN  IF description # None /\ description.value # << >> THEN description
        ELSE IF long # {} THEN Str(Strip(soup[Min(long)].text))
        ELSE description

NON_GENRE_WORDS ==
    { <<"manga">>, <<"manhwa">>, <<"manhua">>, <<"novel">>, <<"one shot">>,
      <<"oneshot">>, <<"ongoing">>, <<"completed">>, <<"hiatus">>,
      <<"cancelled">>, <<"en curso">>, <<"finalizado">>, <<"publicándose">>,
      <<"cancelado">> }

\* .genres a, .generos a, span.genre, a[href*="genero"], a[href*="genre"]
MatchesGenreSelector(el) ==
    \/ (el.tag = "a" /\ el.within \in {"genres", "generos"})
    \/ (el.tag = "span" /\ el.cls = "genre")
    \/ (el.tag = "a" /\ (Contains(el.href, "genero") \/ Contains(el.href, "genre")))

\* a[href*="Action"], a[href*="Adventure"], a[href*="Comedy"]
MatchesGenreHint(el) ==
    el.tag = "a" /\ \E w \in {"Action", "Adventure", "Comedy"} : Contains(el.href, w)

\* the candidates: the non-empty texts of the genre elements, or, when
\* there is none, the texts of the links whose href names a genre
GenreCandidates(soup) ==
    LET texts(hits) == [k \in 1..Len(Select(soup, hits)) |->
                            Strip(soup[Select(soup, hits)[k]].text)]
        primary == SelectSeq(
            texts({ i \in 1..Len(soup) : MatchesGenreSelector(soup[i]) }),
            LAMBDA g : g # << >>)
    IN  IF primary # << >> THEN primary
        ELSE texts({ i \in 1..Len(soup) : MatchesGenreHint(soup[i]) })

\* the denylist skipped
UnfilteredGenres(genres) == genres

\* [g for g in genres if g.lower() not in NON_GENRE_WORDS]
FilterGenres(genres) ==
    SelectSeq(genres, LAMBDA g : Lower(g) \notin NON_GENRE_WORDS)

DetailGenres(soup) == FilterGenres(GenreCandidates(soup))

\* .status, .estado, span:-soup-contains('Estado') + span, dt:... + dd
MatchesStatusSelector(el) ==
    \/ el.cls \in {"status", "estado"}
    \/ (el.tag = "span" /\ el.after = "span:Estado")
    \/ (el.tag = "dd" /\ el.after = "dt:Estado")

\* the status text returned as it is (its first word)
StatusOfTextRaw(status_text) ==
    IF status_text = << >> THEN "unknown" ELSE status_text[1]

\* the status a status text stands for
StatusOfText(status_text) ==
    IF \E w \in {"ongoing", "publicándose", "en curso"} : Contains(status_text, w)
    THEN "ongoing"
    ELSE IF \E w \in {"completed", "finalizado", "completado"} :
                Contains(status_text, w)
    THEN "completed"
    ELSE "unknown"

DetailStatus(soup) ==
    LET hits == { i \in 1..Len(soup) : MatchesStatusSelector(soup[i]) }
    IN  IF hits = {} THEN "unknown"
        ELSE StatusOfText(Lower(Strip(soup[Min(hits)].text)))

\* the dict get_manga_detail returns
DetailResult(manga_url, soup) ==
    [kind |-> "detail", url |-> manga_url,
     title |-> DetailTitle(soup),
     cover |-> DetailCover(soup),
     author |-> DetailAuthor(soup),
     artist |-> DetailArtist(soup),
     description |-> DetailDescription(soup),
     genres |-> DetailGenres(soup),
     status |-> DetailStatus(soup)]

(***************************************************************************)
(* get_chapters.  The document is the sequence, in DOM order, of its <a>   *)
(* elements: whether the anchor is the child of an <h4>, href, text, title *)
(* attribute, and the date element found under the anchor's parent.        *)
(***************************************************************************)
ChapterAnchor(h4, href, text, title, date) ==
    [h4 |-> h4, href |-> href, text |-> text, title |-> title, date |-> date]

NoDateEl == [has |-> FALSE, text |-> << >>]
DateEl(t) == [has |-> TRUE, text |-> t]

ChapterDates ==
    { DateEl(<<"hace", "2", "hora">>), DateEl(<<"hace", "2", "000", "000", "dia">>) }

\* (text, title attribute) of anchors whose name or number is in question
ChapterNamings ==
    { << << >>, << >> >>,
      << << >>, <<"Ch", ".", "2">> >>,
      << <<"x", "Cap">>, <<"Ch", ".", "2">> >>,
      << <<" ", "x">>, <<"Ch", ".", "2">> >> }

ChapterAnchors ==
         { ChapterAnchor(h, <<"/leer/", "a">>, t, << >>, NoDateEl) :
               h \in BOOLEAN,
               t \in { <<"Cap", " ", "1">>, <<"Cap", "2">>, <<"Cap", ".", " ", "3">> } }
    \cup { ChapterAnchor(h, <<"/leer/", "b">>, n[1], n[2], NoDateEl) :
               h \in BOOLEAN, n \in ChapterNamings }
    \cup { ChapterAnchor(h, <<"/leer/", "c">>, <<"Cap", " ", "1">>, << >>, d) :
               h \in BOOLEAN, d \in ChapterDates }
    \cup { ChapterAnchor(TRUE, <<"/manga/", "a">>, <<"Cap", " ", "1">>, << >>, NoDateEl) }

ChapterDocs == UNION { [1..k -> ChapterAnchors] : k \in 0..MaxChapterAnchors }

\* soup.select('h4 > a[href*="/leer/"]'), else the /leer/ anchors whose text
\* matches (?:capitulo|cap)
SelectChapterElements(soup) ==
    LET elements == SelectSeq(soup, LAMBDA a : a.h4 /\ Contains(a.href, "/leer/"))
    IN  IF elements # << >> THEN elements
        ELSE SelectSeq(soup, LAMBDA a : Contains(a.href, "/leer/") /\ Contains(a.text, "Cap"))

\* el.get_text(strip=True) or el.get("title", "")
RawName(el) == IF Strip(el.text) # << >> THEN Strip(el.text) ELSE el.title

\* the pattern is tried on the text and, without a match there, on the title
ChapterNumberOfTextThenTitle(el) ==
    IF ChapterNumber(Strip(el.text)) # MinusOne THEN ChapterNumber(Strip(el.text))
    ELSE ChapterNumber(el.title)

ChapterNumberOf(el) == ChapterNumber(RawName(el))

ChapterDate(el, now) ==
    IF el.date.has THEN _parse_date(Strip(el.date.text), now) ELSE None

ChapterRecord(el, now) ==
    [url |-> el.href, name |-> Strip(RawName(el)),
     chapter_number |-> ChapterNumberOf(el), date |-> ChapterDate(el, now)]

RECURSIVE Reverse(_)
Reverse(s) == IF s = << >> THEN << >> ELSE Append(Reverse(Tail(s)), Head(s))

\* chapters.reverse() is missing
ChaptersInDomOrder(chapters) == chapters

\* chapters.reverse()
FinalOrder(chapters) == Reverse(chapters)

\* The loop of get_chapters: the records in DOM order, or the exception of
\* the first date that raises.
ChapterLoop(elements, now) ==
    LET RECURSIVE Loop(_, _)
        Loop(i, chapters) ==
            IF i > Len(elements) THEN [kind |-> "chapters", chapters |-> chapters]
            ELSE IF ChapterDate(elements[i], now).kind = "raise"
                 THEN ChapterDate(elements[i], now)
                 ELSE Loop(i + 1, Append(chapters, ChapterRecord(elements[i], now)))
    IN  Loop(1, << >>)

(***************************************************************************)
(* get_chapter_images.  The rendered page is the sequence of the <option>  *)
(* values of its <select>s in document order and the sequence of its       *)
(* <img>s.  A URL is a string over "http", ".jpg" (an image extension),    *)
(* "/assets/", " " and letters.                                            *)
(***************************************************************************)
UrlA == <<"http", "a", ".jpg">>
UrlB == <<"http", "b", ".jpg">>
UrlC == <<"http", "c", ".jpg">>

OptionValues ==
    { UrlA, <<" ", "http", "b", ".jpg", " ">>, <<"a", ".jpg">>, <<"http", "a">> }

Img(data_src, data_original, src) ==
    [data_src |-> data_src, data_original |-> data_original, src |-> src]

Imgs ==
    { Img(<< >>, << >>, UrlA), Img(<< >>, << >>, UrlB),
      Img(UrlB, << >>, UrlA), Img(<< >>, UrlC, UrlA),
      Img(<< >>, << >>, <<"http", "/assets/", "a", ".jpg">>),
      Img(<<"http", "a">>, << >>, UrlB) }

Pages ==
    { [options |-> o, imgs |-> i] :
        o \in UNION { [1..k -> OptionValues] : k \in 0..MaxOptions },
        i \in UNION { [1..k -> Imgs] : k \in 0..MaxImgs } }

\* if (!urls.includes(v)) urls.push(v), over the candidates in order
Dedupe(candidates) ==
    LET RECURSIVE Loop(_, _)
        Loop(i, urls) ==
            IF i > Len(candidates) THEN urls
            ELSE IF \E k \in 1..Len(urls) : urls[k] = candidates[i]
                 THEN Loop(i + 1, urls)
                 ELSE Loop(i + 1, Append(urls, candidates[i]))
    IN  Loop(1, << >>)

\* the first evaluate: option values with an image extension that start
\* with "http"
EvaluateOptions(page) ==
    Dedupe(SelectSeq([i \in 1..Len(page.options) |-> Strip(page.options[i])],
                     LAMBDA val : Contains(val, ".jpg") /\ At(val, 1, "http")))

\* the primary source attribute is read before the lazy-load attributes
ImgSourceSrcFirst(img) ==
    IF img.src # << >> THEN img.src
    ELSE IF img.data_src # << >> THEN img.data_src
    ELSE img.data_original

\* img.dataset.src || img.dataset.original || img.src || ''
ImgSource(img) ==
    IF img.data_src # << >> THEN img.data_src
    ELSE IF img.data_original # << >> THEN img.data_original
    ELSE img.src

\* the second evaluate: image sources with an image extension, not under
\* /assets/
EvaluateImgs(page) ==
    Dedupe(SelectSeq([i \in 1..Len(page.imgs) |-> ImgSource(page.imgs[i])],
                     LAMBDA src : Contains(src, ".jpg") /\ ~Contains(src, "/assets/")))

(***************************************************************************)
(* State machine.                                                          *)
(***************************************************************************)
NoArg == [kind |-> "none"]
NoDoc == [kind |-> "none"]
NoRet == [kind |-> "none"]

\* no concurrent call and no request: the state of the sequential specifications
NoConcurrent ==
    /\ calls = << >>
    /\ site = << >>
    /\ chapter_status = << >>
    /\ library = [kind |-> "none"]
    /\ reqs = << >>

Init ==
    /\ op = "none"
    /\ pc = "idle"
    /\ arg = NoArg
    /\ doc = NoDoc
    /\ ret = NoRet
    /\ driver = "none"
    /\ browser = "none"
    /\ NoConcurrent

\* ---- the chapter number of one name (get_chapters, lines 307-309) ----
InitChapterNumber ==
    /\ op = "chapter_number"
    /\ pc = "called"
    /\ arg \in { [kind |-> "name", name |-> s] : s \in Strings(NameAlphabet, MaxNameLen) }
    /\ doc = NoDoc
    /\ ret = NoRet
    /\ driver = "none"
    /\ browser = "none"
    /\ NoConcurrent

ApplyChapterNumber ==
    /\ op = "chapter_number"
    /\ pc = "called"
    /\ ret' = [kind |-> "number", value |-> ChapterNumber(arg.name)]
    /\ pc' = "returned"
    /\ UNCHANGED <<op, arg, doc, driver, browser>>
    /\ UNCHANGED concurrentVars

NextNumber == ApplyChapterNumber

SpecNumber == InitChapterNumber /\ [][NextNumber]_vars

\* ---- _parse_relative_date and _parse_date on one text (lines 66-102) ----
InitParseDate ==
    /\ op \in {"_parse_relative_date", "_parse_date"}
    /\ pc = "called"
    /\ arg \in { [kind |-> "date", date_str |-> s, now |-> NowHours] :
                   s \in Strings(DateAlphabet, MaxDateLen) }
    /\ doc = NoDoc
    /\ ret = NoRet
    /\ driver = "none"
    /\ browser = "none"
    /\ NoConcurrent

ApplyParseRelativeDate ==
    /\ op = "_parse_relative_date"
    /\ pc = "called"
    /\ LET r == _parse_relative_date(arg.date_str, arg.now)
       IN  /\ ret' = r
           /\ pc' = IF r.kind = "raise" THEN "raised" ELSE "returned"
    /\ UNCHANGED <<op, arg, doc, driver, browser>>
    /\ UNCHANGED concurrentVars

ApplyParseDate ==
    /\ op = "_parse_date"
    /\ pc = "called"
    /\ LET r == _parse_date(arg.date_str, arg.now)
       IN  /\ ret' = r
           /\ pc' = IF r.kind = "raise" THEN "raised" ELSE "returned"
    /\ UNCHANGED <<op, arg, doc, driver, browser>>
    /\ UNCHANGED concurrentVars

NextDate == ApplyParseRelativeDate \/ ApplyParseDate

SpecDate == InitParseDate /\ [][NextDate]_vars

\* ---- _clean_title on one title, and again on its result (lines 43-48) ----
InitCleanTitle ==
    /\ op = "_clean_title"
    /\ pc = "called"
    /\ arg \in { [kind |-> "title", title |-> s] :
                   s \in Strings(TitleAlphabet, MaxTitleLen) }
    /\ doc = NoDoc
    /\ ret = NoRet
    /\ driver = "none"
    /\ browser = "none"
    /\ NoConcurrent

ApplyCleanTitle ==
    /\ op = "_clean_title"
    /\ pc = "called"
    /\ ret' = Str(_clean_title(arg.title))
    /\ pc' = "returned"
    /\ UNCHANGED <<op, arg, doc, driver, browser>>
    /\ UNCHANGED concurrentVars

\* the caller passes the cleaned title in again
ApplyCleanTitleAgain ==
    /\ op = "_clean_title"
    /\ pc = "returned"
    /\ arg' = [kind |-> "title", title |-> ret.value]
    /\ ret' = Str(_clean_title(ret.value))
    /\ pc' = "returned_again"
    /\ UNCHANGED <<op, doc, driver, browser>>
    /\ UNCHANGED concurrentVars

NextTitle == ApplyCleanTitle \/ ApplyCleanTitleAgain

SpecTitle == InitCleanTitle /\ [][NextTitle]_vars

\* ---- _abs_url on one URL, and again on its result (lines 51-55) ----
InitAbsUrl ==
    /\ op = "_abs_url"
    /\ pc = "called"
    /\ arg \in { [kind |-> "url", url |-> s] : s \in Strings(UrlAlphabet, MaxUrlLen) }
    /\ doc = NoDoc
    /\ ret = NoRet
    /\ driver = "none"
    /\ browser = "none"
    /\ NoConcurrent

ApplyAbsUrl ==
    /\ op = "_abs_url"
    /\ pc = "called"
    /\ ret' = Str(_abs_url(arg.url))
    /\ pc' = "returned"
    /\ UNCHANGED <<op, arg, doc, driver, browser>>
    /\ UNCHANGED concurrentVars

ApplyAbsUrlAgain ==
    /\ op = "_abs_url"
    /\ pc = "returned"
    /\ arg' = [kind |-> "url", url |-> ret.value]
    /\ ret' = Str(_abs_url(ret.value))
    /\ pc' = "returned_again"
    /\ UNCHANGED <<op, doc, driver, browser>>
    /\ UNCHANGED concurrentVars

NextUrl == ApplyAbsUrl \/ ApplyAbsUrlAgain

SpecUrl == InitAbsUrl /\ [][NextUrl]_vars

\* ---- _fetch (lines 105-110): the response is the document, or an error ----
FetchOps ==
    {"get_popular", "get_latest", "search_manga", "get_manga_detail", "get_chapters"}

DocsOf(o) ==
    IF o = "get_manga_detail" THEN DetailDocs
    ELSE IF o = "get_chapters" THEN ChapterDocs
    ELSE ListDocs

_fetch ==
    /\ op \in FetchOps
    /\ pc = "called"
    /\ \E d \in DocsOf(op) : doc' = [kind |-> "soup", soup |-> d]
    /\ pc' = "fetched"
    /\ UNCHANGED <<op, arg, ret, driver, browser>>
    /\ UNCHANGED concurrentVars

_fetch_raises ==
    /\ op \in FetchOps
    /\ pc = "called"
    /\ ret' = [kind |-> "raise", exc |-> "FetchError"]
    /\ pc' = "raised"
    /\ UNCHANGED <<op, arg, doc, driver, browser>>
    /\ UNCHANGED concurrentVars

\* ---- get_popular, get_latest, search_manga (lines 154-193) ----
CallListing ==
    /\ pc = "idle"
    /\ op' \in {"get_popular", "get_latest", "search_manga"}
    /\ \E page \in 1..MaxPage, query \in Queries :
           arg' = [kind |-> "listing", page |-> page,
                   query |-> IF op' = "search_manga" THEN query ELSE << >>]
    /\ pc' = "called"
    /\ UNCHANGED <<doc, ret, driver, browser>>
    /\ UNCHANGED concurrentVars

Listing(mangas, page, has_next) ==
    [kind |-> "listing", mangas |-> mangas, page |-> page, has_next |-> has_next]

get_popular ==
    /\ op = "get_popular"
    /\ pc = "fetched"
    /\ ret' = Listing(_parse_manga_list(doc.soup), arg.page,
                      HasNextOfPage(doc.soup, arg.page))
    /\ pc' = "returned"
    /\ UNCHANGED <<op, arg, doc, driver, browser>>
    /\ UNCHANGED concurrentVars

get_latest ==
    /\ op = "get_latest"
    /\ pc = "fetched"
    /\ ret' = Listing(_parse_manga_list(doc.soup), arg.page,
                      HasNextLatest(doc.soup, arg.page))
    /\ pc' = "returned"
    /\ UNCHANGED <<op, arg, doc, driver, browser>>
    /\ UNCHANGED concurrentVars

search_manga ==
    /\ op = "search_manga"
    /\ pc = "fetched"
    /\ ret' = Listing(FilterByQuery(_parse_manga_list(doc.soup), arg.query), arg.page,
                      HasNextOfPage(doc.soup, arg.page))
    /\ pc' = "returned"
    /\ UNCHANGED <<op, arg, doc, driver, browser>>
    /\ UNCHANGED concurrentVars

NextListing ==
    CallListing \/ _fetch \/ _fetch_raises \/ get_popular \/ get_latest \/ search_manga

SpecListing == Init /\ [][NextListing]_vars

\* ---- get_manga_detail (lines 196-287) ----
CallDetail ==
    /\ pc = "idle"
    /\ op' = "get_manga_detail"
    /\ arg' = [kind |-> "url", url |-> <<"/manga/", "a">>]
    /\ pc' = "called"
    /\ UNCHANGED <<doc, ret, driver, browser>>
    /\ UNCHANGED concurrentVars

get_manga_detail ==
    /\ op = "get_manga_detail"
    /\ pc = "fetched"
    /\ ret' = DetailResult(arg.url, doc.soup)
    /\ pc' = "returned"
    /\ UNCHANGED <<op, arg, doc, driver, browser>>
    /\ UNCHANGED concurrentVars

NextDetail == CallDetail \/ _fetch \/ _fetch_raises \/ get_manga_detail

SpecDetail == Init /\ [][NextDetail]_vars

\* ---- get_chapters (lines 290-324) ----
CallChapters ==
    /\ pc = "idle"
    /\ op' = "get_chapters"
    /\ arg' = [kind |-> "url", url |-> <<"/manga/", "a">>, now |-> NowHours]
    /\ pc' = "called"
    /\ UNCHANGED <<doc, ret, driver, browser>>
    /\ UNCHANGED concurrentVars

get_chapters ==
    /\ op = "get_chapters"
    /\ pc = "fetched"
    /\ LET r == ChapterLoop(SelectChapterElements(doc.soup), arg.now)
       IN  IF r.kind = "raise"
           THEN ret' = r /\ pc' = "raised"
           ELSE /\ ret' = [kind |-> "chapters", chapters |-> FinalOrder(r.chapters)]
                /\ pc' = "returned"
    /\ UNCHANGED <<op, arg, doc, driver, browser>>
    /\ UNCHANGED concurrentVars

NextChapters == CallChapters \/ _fetch \/ _fetch_raises \/ get_chapters

SpecChapters == Init /\ [][NextChapters]_vars

\* ---- get_chapter_images (lines 327-385) ----
\* Every await of the body either completes or raises (a Playwright error or
\* a timeout).  An exception leaves the "async with" block, whose exit runs
\* before the exception reaches the caller.
RenderError == [kind |-> "raise", exc |-> "RenderError"]

CallImages ==
    /\ pc = "idle"
    /\ op' = "get_chapter_images"
    /\ arg' = [kind |-> "url", url |-> <<"/leer/", "a">>]
    /\ pc' = "called"
    /\ UNCHANGED <<doc, ret, driver, browser>>
    /\ UNCHANGED concurrentVars

\* async with async_playwright() as p: the driver is started
StartPlaywright ==
    /\ op = "get_chapter_images" /\ pc = "called"
    /\ driver' = "running"
    /\ pc' = "started"
    /\ UNCHANGED <<op, arg, doc, ret, browser>>
    /\ UNCHANGED concurrentVars

\* browser = await p.chromium.launch(headless=True)
Launch ==
    /\ op = "get_chapter_images" /\ pc = "started"
    /\ browser' = "open"
    /\ pc' = "launched"
    /\ UNCHANGED <<op, arg, doc, ret, driver>>
    /\ UNCHANGED concurrentVars

\* page = await browser.new_page(...)
NewPage ==
    /\ op = "get_chapter_images" /\ pc = "launched"
    /\ pc' = "paged"
    /\ UNCHANGED <<op, arg, doc, ret, driver, browser>>
    /\ UNCHANGED concurrentVars

\* await page.goto(url, wait_until="networkidle", timeout=30000)
Goto ==
    /\ op = "get_chapter_images" /\ pc = "paged"
    /\ pc' = "loaded"
    /\ UNCHANGED <<op, arg, doc, ret, driver, browser>>
    /\ UNCHANGED concurrentVars

\* await page.wait_for_timeout(3000): the page as the scripts leave it
WaitForTimeout ==
    /\ op = "get_chapter_images" /\ pc = "loaded"
    /\ \E page \in Pages : doc' = [kind |-> "page", page |-> page]
    /\ pc' = "settled"
    /\ UNCHANGED <<op, arg, ret, driver, browser>>
    /\ UNCHANGED concurrentVars

\* image_urls = await page.evaluate(<options>)
EvaluateSelects ==
    /\ op = "get_chapter_images" /\ pc = "settled"
    /\ ret' = [kind |-> "images", image_urls |-> EvaluateOptions(doc.page)]
    /\ pc' = "evaluated"
    /\ UNCHANGED <<op, arg, doc, driver, browser>>
    /\ UNCHANGED concurrentVars

\* if not image_urls: image_urls = await page.evaluate(<imgs>)
EvaluateFallback ==
    /\ op = "get_chapter_images" /\ pc = "evaluated"
    /\ ret.image_urls = << >>
    /\ ret' = [kind |-> "images", image_urls |-> EvaluateImgs(doc.page)]
    /\ pc' = "closing"
    /\ UNCHANGED <<op, arg, doc, driver, browser>>
    /\ UNCHANGED concurrentVars

SkipFallback ==
    /\ op = "get_chapter_images" /\ pc = "evaluated"
    /\ ret.image_urls # << >>
    /\ pc' = "closing"
    /\ UNCHANGED <<op, arg, doc, ret, driver, browser>>
    /\ UNCHANGED concurrentVars

\* await browser.close()
CloseBrowser ==
    /\ op = "get_chapter_images" /\ pc = "closing"
    /\ browser' = "closed"
    /\ pc' = "leaving"
    /\ UNCHANGED <<op, arg, doc, ret, driver>>
    /\ UNCHANGED concurrentVars

\* an await of the body raises: starting the driver fails before there is a
\* block to leave; everywhere else the exception leaves the block
AwaitRaises ==
    /\ op = "get_chapter_images"
    /\ pc \in {"called", "started", "launched", "paged", "loaded", "settled",
               "evaluated", "closing"}
    /\ ret' = RenderError
    /\ pc' = IF pc = "called" THEN "raised" ELSE "unwinding"
    /\ UNCHANGED <<op, arg, doc, driver, browser>>
    /\ UNCHANGED concurrentVars

\* the block is left without stopping the driver (playwright started with
\* start() and stopped only on the success path)
ScopeExitWithoutStop ==
    /\ op = "get_chapter_images"
    /\ pc \in {"leaving", "unwinding"}
    /\ driver' = IF pc = "leaving" THEN "stopped" ELSE driver
    /\ pc' = IF pc = "leaving" THEN "returned" ELSE "raised"
    /\ UNCHANGED <<op, arg, doc, ret, browser>>
    /\ UNCHANGED concurrentVars

\* The exit of "async with async_playwright()": Playwright stops its driver,
\* and the driver, on stopping, closes every browser it launched.  It runs
\* when the body completes and when an exception leaves it.
ScopeExit ==
    /\ op = "get_chapter_images"
    /\ pc \in {"leaving", "unwinding"}
    /\ driver' = "stopped"
    /\ browser' = IF browser = "open" THEN "closed" ELSE browser
    /\ pc' = IF pc = "leaving" THEN "returned" ELSE "raised"
    /\ UNCHANGED <<op, arg, doc, ret>>
    /\ UNCHANGED concurrentVars

NextImages ==
    \/ CallImages \/ StartPlaywright \/ Launch \/ NewPage \/ Goto
    \/ WaitForTimeout \/ EvaluateSelects \/ EvaluateFallback \/ SkipFallback
    \/ CloseBrowser \/ AwaitRaises \/ ScopeExit

SpecImages == Init /\ [][NextImages]_vars

(***************************************************************************)
(* Scraper calls in flight together.  Each call is a coroutine of its own: *)
(* _fetch and fetch_image_bytes open an httpx.AsyncClient of their own     *)
(* (lines 107, 395), get_chapter_images starts a Playwright driver and a   *)
(* browser of its own (lines 338-339), and the module holds no state that  *)
(* a call writes.  calls[c] is the state of call c; the calls have         *)
(* distinct URLs.  client.get follows redirects (follow_redirects=True):   *)
(* sent counts the requests on the wire, gets the calls of client.get.     *)
(***************************************************************************)
CallIds == {1, 2}

MaxRedirects == 1

HttpOps == {"get_manga_detail", "fetch_image_bytes"}

IdleCall ==
    [op |-> "none", pc |-> "idle", url |-> << >>, client |-> "none", gets |-> 0,
     sent |-> 0, resp |-> NoDoc, ret |-> NoRet, browser |-> "none"]

SequentialIdle ==
    /\ op = "none"
    /\ pc = "idle"
    /\ arg = NoArg
    /\ doc = NoDoc
    /\ ret = NoRet
    /\ driver = "none"
    /\ browser = "none"

InitCalls ==
    /\ SequentialIdle
    /\ calls = [c \in CallIds |-> IdleCall]
    /\ site = << >>
    /\ chapter_status = << >>
    /\ library = [kind |-> "none"]
    /\ reqs = << >>

\* the bodies a 2xx response to a call can carry
BodiesOf(o) ==
    IF o = "get_manga_detail"
    THEN { << Element("h1", "", "", <<"A">>, << >>) >>,
           << Element("div", "status", "", <<"En Curso">>, << >>) >> }
    ELSE { <<"bytes", "a">>, <<"bytes", "b">> }

\* the pages a rendering can settle on
PagesOfCall ==
    { [options |-> <<UrlA>>, imgs |-> << >>],
      [options |-> << >>, imgs |-> <<Img(<< >>, << >>, UrlB)>>] }

Response(status, body) == [kind |-> "response", status |-> status, body |-> body]

Raise(exc) == [kind |-> "raise", exc |-> exc]

\* what the operation makes of the response to its own request
ResultOf(o, url, body) ==
    IF o = "get_manga_detail" THEN DetailResult(url, body)
    ELSE [kind |-> "bytes", content |-> body]

\* the images of a rendered page
ImagesOf(page) ==
    [kind |-> "images",
     image_urls |-> IF EvaluateOptions(page) # << >> THEN EvaluateOptions(page)
                    ELSE EvaluateImgs(page)]

StepOf(c, next) ==
    /\ calls' = [calls EXCEPT ![c] = next]
    /\ UNCHANGED <<op, pc, arg, doc, ret, driver, browser>>
    /\ UNCHANGED <<site, chapter_status, library, reqs>>

StartCall(c) ==
    /\ calls[c].pc = "idle"
    /\ \E o \in HttpOps \cup {"get_chapter_images"} :
           StepOf(c, [calls[c] EXCEPT !.op = o, !.pc = "called",
                                      !.url = <<"/", "a">> \o ToDigits(c)])

\* async with httpx.AsyncClient(...) as client
AsyncClientEnter(c) ==
    /\ calls[c].op \in HttpOps
    /\ calls[c].pc = "called"
    /\ StepOf(c, [calls[c] EXCEPT !.client = "open", !.pc = "ready"])

\* resp = await client.get(url): the request is sent
client_get(c) ==
    /\ calls[c].pc = "ready"
    /\ StepOf(c, [calls[c] EXCEPT !.gets = @ + 1, !.sent = @ + 1, !.pc = "awaiting"])

\* a 3xx answer: the client sends the request to the new location
FollowRedirect(c) ==
    /\ calls[c].pc = "awaiting"
    /\ calls[c].sent <= MaxRedirects
    /\ StepOf(c, [calls[c] EXCEPT !.sent = @ + 1])

\* the final answer arrives, 2xx or not
ReceiveResponse(c) ==
    /\ calls[c].pc = "awaiting"
    /\ \E r \in { Response("ok", b) : b \in BodiesOf(calls[c].op) }
                \cup { Response("error", << >>) } :
           StepOf(c, [calls[c] EXCEPT !.resp = r, !.pc = "responded"])

\* on an exception the call gives up
GiveUp(call, exc) == [call EXCEPT !.ret = Raise(exc), !.pc = "failing"]

\* on an exception the request is made once more
TryAgain(call, exc) ==
    IF call.gets < 2 /\ call.client = "open"
    THEN [call EXCEPT !.pc = "ready"]
    ELSE [call EXCEPT !.ret = Raise(exc), !.pc = "failing"]

\* no loop and no except clause surrounds client.get or raise_for_status
OnException(call, exc) == GiveUp(call, exc)

\* a network error or a timeout (timeout=30): client.get raises
RequestFails(c) ==
    /\ calls[c].pc = "awaiting"
    /\ \E exc \in {"ConnectError", "TimeoutException"} :
           StepOf(c, OnException(calls[c], exc))

\* a response held in one place for all calls: that of another call when there is one
ResponseOfAnyCall(cs, c) ==
    LET others == { d \in CallIds : d # c /\ cs[d].resp # NoDoc
                                    /\ cs[d].op = cs[c].op }
    IN  IF others = {} THEN cs[c].resp ELSE cs[CHOOSE d \in others : TRUE].resp

\* the response a call works on: the one to its own request
ResponseOf(cs, c) == cs[c].resp

\* resp.raise_for_status(), then the rest of the operation on the response
raise_for_status(c) ==
    /\ calls[c].pc = "responded"
    /\ calls[c].op \in HttpOps
    /\ LET resp == ResponseOf(calls, c)
       IN  IF resp.status = "error"
           THEN StepOf(c, OnException(calls[c], "HTTPStatusError"))
           ELSE StepOf(c, [calls[c] EXCEPT
                              !.ret = ResultOf(calls[c].op, calls[c].url, resp.body),
                              !.pc = "leaving"])

\* the async with block is left, by return or by exception: the client closes
AsyncClientExit(c) ==
    /\ calls[c].op \in HttpOps
    /\ calls[c].pc \in {"leaving", "failing"}
    /\ StepOf(c, [calls[c] EXCEPT
                     !.client = "closed",
                     !.pc = IF calls[c].pc = "leaving" THEN "returned" ELSE "raised"])

\* async with async_playwright() as p; browser = await p.chromium.launch()
LaunchChromium(c) ==
    /\ calls[c].op = "get_chapter_images"
    /\ calls[c].pc = "called"
    /\ StepOf(c, [calls[c] EXCEPT !.browser = "open", !.pc = "rendering"])

\* goto and wait_for_timeout: the page settles
PageSettles(c) ==
    /\ calls[c].pc = "rendering"
    /\ \E page \in PagesOfCall :
           StepOf(c, [calls[c] EXCEPT !.resp = [kind |-> "page", page |-> page],
                                      !.pc = "settled"])

\* goto raises: a navigation error or its timeout (timeout=30000)
RenderFails(c) ==
    /\ calls[c].pc = "rendering"
    /\ \E exc \in {"RenderError", "TimeoutError"} :
           StepOf(c, [calls[c] EXCEPT !.ret = Raise(exc), !.pc = "failing"])

\* the evaluations, then await browser.close()
EvaluatePage(c) ==
    /\ calls[c].pc = "settled"
    /\ StepOf(c, [calls[c] EXCEPT !.ret = ImagesOf(ResponseOf(calls, c).page),
                                  !.browser = "closed", !.pc = "leaving"])

\* the async_playwright block is left: the driver stops, and its browser
PlaywrightExit(c) ==
    /\ calls[c].op = "get_chapter_images"
    /\ calls[c].pc \in {"leaving", "failing"}
    /\ StepOf(c, [calls[c] EXCEPT
                     !.browser = "closed",
                     !.pc = IF calls[c].pc = "leaving" THEN "returned" ELSE "raised"])

NextCalls ==
    \E c \in CallIds :
        \/ StartCall(c)
        \/ AsyncClientEnter(c)
        \/ client_get(c)
        \/ FollowRedirect(c)
        \/ ReceiveResponse(c)
        \/ RequestFails(c)
        \/ raise_for_status(c)
        \/ AsyncClientExit(c)
        \/ LaunchChromium(c)
        \/ PageSettles(c)
        \/ RenderFails(c)
        \/ EvaluatePage(c)
        \/ PlaywrightExit(c)

SpecCalls == InitCalls /\ [][NextCalls]_vars

(***************************************************************************)
(* The route handlers that compute reading progress (routes/chapters.py,   *)
(* routes/library.py), for one user and one manga.  The handlers are       *)
(* coroutines on one event loop: the Supabase calls are synchronous, so a  *)
(* handler runs atomically from one await to the next, and other handlers  *)
(* run while it awaits the scraper or Anilist.  A handler resumes some     *)
(* time after the awaited answer has arrived.                              *)
(*                                                                         *)
(* chapter_status is the set of chapter URLs whose row has is_read true    *)
(* (the handlers read the table only through is_read = true).  Chapter     *)
(* numbers are whole numbers, -1 for a name without a number.              *)
(***************************************************************************)
ReqIds == {1, 2}

ChapterUrls == {"c1", "c2", "c3"}

Chapter(url, chapter_number) == [url |-> url, chapter_number |-> chapter_number]

\* the chapter lists the site may serve, oldest first
Catalogues ==
    { << Chapter("c1", 1), Chapter("c2", 2), Chapter("c3", 3) >>,
      << Chapter("c1", -1), Chapter("c2", -1) >>,
      << >> }

Statuses == {"reading", "completed", "on_hold"}

NoEntry == [kind |-> "none"]

Entry(status, current_chapter) ==
    [kind |-> "entry", status |-> status, current_chapter |-> current_chapter]

IdleReq ==
    [handler |-> "none", pc |-> "idle", is_read |-> FALSE, unmarked |-> FALSE,
     read_urls |-> {}, fetched |-> "none", chapters |-> << >>, max_chapter |-> 0]

InitProgress ==
    /\ SequentialIdle
    /\ calls = << >>
    /\ site \in Catalogues
    /\ chapter_status = {}
    /\ library = NoEntry
    /\ reqs = [r \in ReqIds |-> IdleReq]

Max(S) == CHOOSE x \in S : \A y \in S : x >= y

\* upsert of rows {chapter_url, is_read} on conflict (user_id, chapter_url)
Upsert(table, chapter_urls, is_read) ==
    IF is_read THEN table \cup chapter_urls ELSE table \ chapter_urls

\* url_to_num = {ch["url"]: ch["chapter_number"] for ch in chapters};
\* url_to_num.get(url, -1)
NumOf(chapters, url) ==
    LET hits == { i \in 1..Len(chapters) : chapters[i].url = url }
    IN  IF hits = {} THEN -1 ELSE chapters[Max(hits)].chapter_number

\* max_chapter = 0; for url in read_urls: if num > max_chapter: max_chapter = num
MaxChapter(read_urls, chapters) ==
    Max({0} \cup { NumOf(chapters, url) : url \in read_urls })

\* max(ch["chapter_number"] for ch in chapters)
MaxOfChapters(chapters) ==
    Max({ chapters[i].chapter_number : i \in 1..Len(chapters) })

Handle(r, next) ==
    /\ reqs' = [reqs EXCEPT ![r] = next]
    /\ UNCHANGED <<op, pc, arg, doc, ret, driver, browser, calls, site>>

Startable(r) == reqs[r].pc \in {"idle", "done"}

\* the handler has returned: its locals are gone (what it ran and how its
\* fetch ended stay on record)
Done(req) ==
    [IdleReq EXCEPT !.handler = req.handler, !.pc = "done", !.fetched = req.fetched]

\* POST /api/library: upsert on conflict (user_id, manga_url); a new entry
\* has no progress yet
add_to_library(r) ==
    /\ Startable(r)
    /\ \E status \in Statuses :
           library' = IF library = NoEntry THEN Entry(status, 0)
                      ELSE [library EXCEPT !.status = status]
    /\ Handle(r, [IdleReq EXCEPT !.handler = "add_to_library", !.pc = "done"])
    /\ UNCHANGED chapter_status

\* the upsert of a mark request, then _recalc_progress up to its first
\* await: the read rows are selected and scraper.get_chapters is awaited.
\* unmarked tells whether the upsert turned a read chapter unread (the code
\* does not compute it).
Mark(r, handler, chapter_urls, is_read) ==
    /\ Startable(r)
    /\ chapter_status' = Upsert(chapter_status, chapter_urls, is_read)
    /\ Handle(r, [IdleReq EXCEPT !.handler = handler, !.pc = "get_chapters",
                                 !.is_read = is_read,
                                 !.unmarked = (~is_read
                                               /\ chapter_urls \cap chapter_status # {}),
                                 !.read_urls = chapter_status'])
    /\ UNCHANGED library

\* POST /api/chapters/mark-read
mark_read(r) ==
    \E chapter_url \in ChapterUrls, is_read \in BOOLEAN :
        Mark(r, "mark_read", {chapter_url}, is_read)

\* POST /api/chapters/mark-previous-read: the chapters up to one chapter
mark_previous_read(r) ==
    \E chapter_urls \in { {}, {"c1"}, {"c1", "c2"} }, is_read \in BOOLEAN :
        Mark(r, "mark_previous_read", chapter_urls, is_read)

\* scraper.get_chapters answers, with the list or with an exception; the
\* handler is resumed later
get_chapters_answers(r) ==
    /\ reqs[r].pc = "get_chapters"
    /\ \E fetched \in {"ok", "raise"} :
           Handle(r, [reqs[r] EXCEPT !.pc = "resumed", !.fetched = fetched,
                                     !.chapters = IF fetched = "ok" THEN site
                                                  ELSE << >>])
    /\ UNCHANGED <<chapter_status, library>>

\* the update of the entry that was found
RecalcUpdates(entry, max_chapter) ==
    [entry EXCEPT !.current_chapter = max_chapter,
                  !.status = IF entry.status = "completed"
                                /\ max_chapter < entry.current_chapter
                             THEN "reading" ELSE @]

\* _recalc_progress from its first await to its next: except Exception
\* leaves url_to_num empty; the entry is updated, or, without an entry and
\* with progress, scraper.get_manga_detail is awaited; with an Anilist link
\* and progress, the Anilist update is awaited
_recalc_progress(r) ==
    /\ reqs[r].pc = "resumed"
    /\ reqs[r].handler \in {"mark_read", "mark_previous_read"}
    /\ LET max_chapter == MaxChapter(reqs[r].read_urls, reqs[r].chapters)
       IN  IF library # NoEntry
           THEN /\ library' = RecalcUpdates(library, max_chapter)
                /\ \E linked \in BOOLEAN :
                       Handle(r, IF linked /\ max_chapter > 0
                                 THEN [reqs[r] EXCEPT !.pc = "update_progress"]
                                 ELSE Done(reqs[r]))
           ELSE /\ library' = library
                /\ Handle(r, IF max_chapter > 0
                             THEN [reqs[r] EXCEPT !.pc = "get_manga_detail",
                                                  !.max_chapter = max_chapter]
                             ELSE Done(reqs[r]))
    /\ UNCHANGED chapter_status

\* the auto-add: the detail arrived or failed; upsert on conflict
\* (user_id, manga_url) with status reading and the progress found
auto_add(r) ==
    /\ reqs[r].pc = "get_manga_detail"
    /\ library' = Entry("reading", reqs[r].max_chapter)
    /\ Handle(r, Done(reqs[r]))
    /\ UNCHANGED chapter_status

\* _sync_anilist / _sync_anilist_status returned (its exceptions are logged)
anilist_synced(r) ==
    /\ reqs[r].pc = "update_progress"
    /\ Handle(r, Done(reqs[r]))
    /\ UNCHANGED <<chapter_status, library>>

\* POST /api/library/{id}/status up to its first await
change_status(r) ==
    /\ Startable(r)
    /\ IF library = NoEntry
       THEN /\ Handle(r, [IdleReq EXCEPT !.handler = "change_status", !.pc = "done"])
            /\ UNCHANGED library
       ELSE \E status \in Statuses, linked \in BOOLEAN :
                /\ library' = [library EXCEPT !.status = status]
                /\ Handle(r, [IdleReq EXCEPT
                                 !.handler = "change_status",
                                 !.pc = IF status = "completed" THEN "get_chapters"
                                        ELSE IF linked THEN "update_progress"
                                        ELSE "done"])
    /\ UNCHANGED chapter_status

\* change_status after scraper.get_chapters: every chapter is marked read
\* and current_chapter becomes the highest chapter number; an exception is
\* logged
mark_all_read(r) ==
    /\ reqs[r].pc = "resumed"
    /\ reqs[r].handler = "change_status"
    /\ IF reqs[r].fetched = "ok" /\ reqs[r].chapters # << >>
       THEN /\ chapter_status' =
                   Upsert(chapter_status,
                          { reqs[r].chapters[i].url : i \in 1..Len(reqs[r].chapters) },
                          TRUE)
            /\ library' = IF library = NoEntry THEN library
                          ELSE [library EXCEPT
                                   !.current_chapter = MaxOfChapters(reqs[r].chapters)]
            /\ \E linked \in BOOLEAN :
                   Handle(r, IF linked THEN [reqs[r] EXCEPT !.pc = "update_progress"]
                             ELSE Done(reqs[r]))
       ELSE /\ Handle(r, Done(reqs[r]))
            /\ UNCHANGED <<chapter_status, library>>

NextProgress ==
    \E r \in ReqIds :
        \/ add_to_library(r)
        \/ mark_read(r)
        \/ mark_previous_read(r)
        \/ get_chapters_answers(r)
        \/ _recalc_progress(r)
        \/ auto_add(r)
        \/ anilist_synced(r)
        \/ change_status(r)
        \/ mark_all_read(r)

SpecProgress == InitProgress /\ [][NextProgress]_vars

(***************************************************************************)
(* Claims.                                                                 *)
(***************************************************************************)

\* ---- C4 ----
Markers ==
    { <<"Cap", "itulo">>, <<"Cap">>, <<"Cap", ".">>,
      <<"Ch", "apter">>, <<"Ch">>, <<"Ch", ".">> }

HasAt(s, i, m) ==
    /\ i + Len(m) - 1 <= Len(s)
    /\ \A k \in 1..Len(m) : s[i + k - 1] = m[k]

\* the positions of a digit that follows a marker at i, blanks only between
NumberStarts(s, i) ==
    { d \in 1..Len(s) :
        /\ IsDigit(s[d])
        /\ \E m \in Markers :
              /\ HasAt(s, i, m)
              /\ d >= i + Len(m)
              /\ \A w \in (i + Len(m))..(d - 1) : s[w] = " " }

MarkerOccurrences(s) == { i \in 1..Len(s) : NumberStarts(s, i) # {} }

\* the decimal written at d: its digits, and the digits after one "."
DecimalAt(s, d) ==
    LET e == Min({ k \in d..(Len(s) + 1) : ~DigitAt(s, k) })
        f == IF At(s, e, ".") /\ DigitAt(s, e + 1)
             THEN Min({ k \in (e + 1)..(Len(s) + 1) : ~DigitAt(s, k) })
             ELSE e
    IN  [whole |-> DecVal(Slice(s, d, e)),
         frac  |-> DropTrailingZeros(Slice(s, e + 1, f))]

\* C4: the chapter number of a name is the decimal that follows the first
\* occurrence of a marker Capitulo/Cap/Cap./Chapter/Ch/Ch. followed (after
\* optional blanks) by a number, and exactly -1 when there is none; so it is
\* non-negative or exactly -1.
C4_ChapterNumber ==
    (op = "chapter_number" /\ pc = "returned") =>
        LET s == arg.name
            occ == MarkerOccurrences(s)
        IN  /\ occ = {} => ret.value = MinusOne
            /\ occ # {} =>
                  \A d \in NumberStarts(s, Min(occ)) : ret.value = DecimalAt(s, d)
            /\ (ret.value.whole >= 0 \/ ret.value = MinusOne)

\* "x Cap. 1.1": a marker after other text, with a dot and a fraction
C4_Witness ==
    /\ op = "chapter_number" /\ pc = "returned"
    /\ arg.name = <<"x", "Cap", ".", "1", ".">>
    /\ ret.value = [whole |-> 1, frac |-> << >>]

\* ---- C6 ----
\* C6: _parse_date is total: for every text it returns an ISO string or
\* absent and never raises.
C6_ParseDateTotal ==
    op = "_parse_date" => (pc # "raised" /\ (pc = "returned" => ret.kind \in {"iso", "none"}))

\* ---- C7 ----
UnitHours(s) ==
    IF Contains(s, "hora") THEN 1
    ELSE IF Contains(s, "dia") THEN 24
    ELSE IF Contains(s, "semana") THEN 7 * 24
    ELSE IF Contains(s, "mes") THEN 30 * 24
    ELSE 0

LeadingInteger(s) ==
    LET c == Chars(s)
        d == Min({ i \in 1..Len(c) : IsDigit(c[i]) })
    IN  IntOf(Slice(c, d, Min({ k \in d..(Len(c) + 1) : ~DigitAt(c, k) })))

HasInteger(s) == \E i \in 1..Len(Chars(s)) : IsDigit(Chars(s)[i])

\* C7: for a text with the "hace" marker, an integer n and a unit word, the
\* relative-date parser returns now - n * unit (unit resolved in the order
\* hour, day, week, month = 30 days); a text without the marker gives absent.
C7_RelativeDate ==
    (op = "_parse_relative_date" /\ pc \in {"returned", "raised"}) =>
        LET s == arg.date_str
        IN  /\ ~Contains(s, "hace") => (pc = "returned" /\ ret = None)
            /\ (Contains(s, "hace") /\ HasInteger(s) /\ UnitHours(s) # 0) =>
                  /\ pc = "returned"
                  /\ ret.kind = "datetime"
                  /\ ret.hours = arg.now - LeadingInteger(s) * UnitHours(s)

\* the same, for the amounts that do not reach back before datetime.min
C7_RelativeDateInRange ==
    (op = "_parse_relative_date" /\ pc \in {"returned", "raised"}) =>
        LET s == arg.date_str
        IN  /\ ~Contains(s, "hace") => (pc = "returned" /\ ret = None)
            /\ (/\ Contains(s, "hace") /\ HasInteger(s) /\ UnitHours(s) # 0
                /\ LeadingInteger(s) <= arg.now \div UnitHours(s)) =>
                  /\ pc = "returned"
                  /\ ret.kind = "datetime"
                  /\ ret.hours = arg.now - LeadingInteger(s) * UnitHours(s)
            /\ (/\ Contains(s, "hace") /\ HasInteger(s) /\ UnitHours(s) # 0
                /\ LeadingInteger(s) > arg.now \div UnitHours(s)) =>
                  pc = "raised"

\* _parse_date raises only through the overflow of a relative date
C6_RaisesOnlyOnOverflow ==
    (op = "_parse_date" /\ pc = "raised") =>
        /\ ret = OverflowError
        /\ Contains(arg.date_str, "hace") /\ UnitHours(arg.date_str) # 0
        /\ LeadingInteger(arg.date_str) > arg.now \div UnitHours(arg.date_str)

\* ---- C2 ----
Accepted(a) ==
    /\ Contains(a.href, "/manga/")
    /\ ~Contains(a.href, "/leer/")
    /\ Strip(a.text) # << >>

\* the positions of the accepted anchors that are the first with their href
FirstOccurrences(soup) ==
    { i \in 1..Len(soup) :
        /\ Accepted(soup[i])
        /\ \A j \in 1..(i - 1) : Accepted(soup[j]) => soup[j].href # soup[i].href }

\* the elements of a set of numbers in increasing order
RECURSIVE Ascending(_)
Ascending(S) == IF S = {} THEN << >> ELSE <<Min(S)>> \o Ascending(S \ {Min(S)})

\* C2: the list of _parse_manga_list holds no url twice; exactly the first
\* accepted anchor of each href gives an item, in DOM order.
C2_NoDuplicateUrl ==
    /\ (op \in {"get_popular", "get_latest"} /\ pc = "returned") =>
          LET mangas == ret.mangas
              first == Ascending(FirstOccurrences(doc.soup))
          IN  /\ \A k, l \in 1..Len(mangas) : k # l => mangas[k].url # mangas[l].url
              /\ Len(mangas) = Len(first)
              /\ \A k \in 1..Len(mangas) :
                    /\ mangas[k].url = doc.soup[first[k]].href
                    /\ mangas[k].title = _clean_title(Strip(doc.soup[first[k]].text))
    \* search_manga returns the items of that list whose title holds the query
    /\ (op = "search_manga" /\ pc = "returned") =>
          LET mangas == ret.mangas
              first == Ascending({ i \in FirstOccurrences(doc.soup) :
                          ContainsSeq(_clean_title(Strip(doc.soup[i].text)), arg.query) })
          IN  /\ \A k, l \in 1..Len(mangas) : k # l => mangas[k].url # mangas[l].url
              /\ Len(mangas) = Len(first)
              /\ \A k \in 1..Len(mangas) : mangas[k].url = doc.soup[first[k]].href

\* three accepted anchors, the third repeating the href of the first with
\* another text: two items, the first text kept
C2_Witness ==
    /\ op = "get_popular" /\ pc = "returned"
    /\ Len(doc.soup) = 3
    /\ \A i \in 1..3 : Accepted(doc.soup[i])
    /\ doc.soup[1].href = doc.soup[3].href
    /\ doc.soup[1].href # doc.soup[2].href
    /\ doc.soup[1].text # doc.soup[3].text
    /\ Len(ret.mangas) = 2

\* ---- C9 ----
\* the page numbers the anchors link to: the digits that follow "page="
PageNumbers(a) ==
    { DecVal(Slice(a.href, i + 1, DigitsEnd(a.href, i + 1))) :
        i \in { j \in 1..Len(a.href) : a.href[j] = "page=" /\ DigitAt(a.href, j + 1) } }

LinksToPage(soup, n) == \E i \in 1..Len(soup) : n \in PageNumbers(soup[i])

NextMarker(soup) == \E i \in 1..Len(soup) : soup[i].cls = "next" \/ soup[i].rel = "next"

\* C9 as stated: for every listing operation and page N, has_next is true
\* exactly when the document links to page N+1 or carries a.next / rel=next.
C9_HasNextAsStated ==
    (op \in {"get_popular", "get_latest", "search_manga"} /\ pc = "returned") =>
        (ret.has_next <=> (LinksToPage(doc.soup, arg.page + 1) \/ NextMarker(doc.soup)))

\* an anchor whose href contains the text "page=<n>": a link to page n, or to
\* a page whose number begins with the digits of n
HrefMentionsPage(soup, n) ==
    \E i \in 1..Len(soup) : \E p \in PageNumbers(soup[i]) :
        LET dp == ToDigits(p)
            dn == ToDigits(n)
        IN  Len(dn) <= Len(dp) /\ SubSeq(dp, 1, Len(dn)) = dn

\* C9 amended: get_popular and search_manga report has_next exactly when an
\* anchor's href contains the text "page=<N+1>" (a link to page N+1, or to a
\* page whose number begins with those digits) or an a.next / rel=next marker
\* exists; get_latest reports it exactly when N = 1 and an anchor's href
\* contains "page=2" or an a.next marker exists.
C9_HasNext ==
    /\ (op \in {"get_popular", "search_manga"} /\ pc = "returned") =>
          /\ (LinksToPage(doc.soup, arg.page + 1) \/ NextMarker(doc.soup)) => ret.has_next
          /\ ret.has_next <=>
                (HrefMentionsPage(doc.soup, arg.page + 1) \/ NextMarker(doc.soup))
    /\ (op = "get_latest" /\ pc = "returned") =>
          (ret.has_next <=>
              /\ arg.page = 1
              /\ \/ HrefMentionsPage(doc.soup, 2)
                 \/ \E i \in 1..Len(doc.soup) : doc.soup[i].cls = "next")

\* get_latest on page 2 of a document that links to page 3: no next page
C9_Witness ==
    /\ op = "get_latest" /\ pc = "returned"
    /\ arg.page = 2
    /\ LinksToPage(doc.soup, 3)
    /\ ~ret.has_next

\* ---- C8 ----
\* the value of the first element that matches one selector: its text, else
\* its content attribute; empty when nothing matches
ProbeValue(soup, hits) ==
    IF hits = {} THEN << >>
    ELSE IF Strip(soup[Min(hits)].text) # << >> THEN Strip(soup[Min(hits)].text)
    ELSE soup[Min(hits)].content

H1s(soup) == { i \in 1..Len(soup) : soup[i].tag = "h1" }
MangaTitles(soup) == { i \in 1..Len(soup) : soup[i].cls = "manga-title" }
OgTitles(soup) ==
    { i \in 1..Len(soup) : soup[i].tag = "meta" /\ soup[i].property = "og:title" }

\* C8: the title is resolved by priority: the h1, then .manga-title, and the
\* og:title meta only if neither gives a non-empty value; with an og:title
\* meta and an h1 of different text, the title is the suffix-stripped h1 text.
C8_TitleCascade ==
    (op = "get_manga_detail" /\ pc = "returned") =>
        ret.title =
            _clean_title(
                IF ProbeValue(doc.soup, H1s(doc.soup)) # << >>
                THEN ProbeValue(doc.soup, H1s(doc.soup))
                ELSE IF ProbeValue(doc.soup, MangaTitles(doc.soup)) # << >>
                     THEN ProbeValue(doc.soup, MangaTitles(doc.soup))
                ELSE ProbeValue(doc.soup, OgTitles(doc.soup)))

\* ---- C3 ----
\* the positions of the anchors get_chapters selects
SelectedPositions(soup) ==
    LET primary  == { i \in 1..Len(soup) : soup[i].h4 /\ Contains(soup[i].href, "/leer/") }
        fallback == { i \in 1..Len(soup) :
                        Contains(soup[i].href, "/leer/") /\ Contains(soup[i].text, "Cap") }
    IN  Ascending(IF primary # {} THEN primary ELSE fallback)

\* C3: get_chapters returns one record per selected anchor, in exactly the
\* reverse of the DOM order of the selected anchors.
C3_ReverseOfDomOrder ==
    (op = "get_chapters" /\ pc = "returned") =>
        LET sel == SelectedPositions(doc.soup)
            n   == Len(sel)
        IN  /\ Len(ret.chapters) = n
            /\ \A k \in 1..n :
                  ret.chapters[k] = ChapterRecord(doc.soup[sel[n - k + 1]], arg.now)

\* a page listing chapters 3, 2, 1 yields 1, 2, 3
C3_Witness ==
    /\ op = "get_chapters" /\ pc = "returned"
    /\ Len(doc.soup) = 3
    /\ [i \in 1..3 |-> doc.soup[i].text] =
           << <<"Cap", ".", " ", "3">>, <<"Cap", "2">>, <<"Cap", " ", "1">> >>
    /\ Len(ret.chapters) = 3
    /\ [k \in 1..3 |-> ret.chapters[k].chapter_number.whole] = <<1, 2, 3>>

\* ---- C5 ----
\* the anchor a record of the result was made from
AnchorOfRecord(k) ==
    LET sel == SelectedPositions(doc.soup)
    IN  doc.soup[sel[Len(sel) - k + 1]]

\* C5 as stated: the pattern is matched against the anchor text and then
\* against the title attribute; -1 only when neither matches.
C5_TextThenTitleAsStated ==
    (op = "get_chapters" /\ pc = "returned") =>
        \A k \in 1..Len(ret.chapters) :
            ret.chapters[k].chapter_number = ChapterNumberOfTextThenTitle(AnchorOfRecord(k))

\* C5 amended: the pattern is matched against one string, the anchor's
\* stripped text when that is non-empty and the title attribute only when the
\* stripped text is empty; -1 results exactly when that string holds no
\* marker followed by a number.
C5_TextElseTitle ==
    (op = "get_chapters" /\ pc = "returned") =>
        \A k \in 1..Len(ret.chapters) :
            LET el   == AnchorOfRecord(k)
                name == IF Strip(el.text) # << >> THEN Strip(el.text) ELSE el.title
                occ  == MarkerOccurrences(name)
            IN  /\ (ret.chapters[k].chapter_number = MinusOne) <=> (occ = {})
                /\ occ # {} =>
                      \A d \in NumberStarts(name, Min(occ)) :
                          ret.chapters[k].chapter_number = DecimalAt(name, d)

\* a text without a number beside a title with one: the record has -1
C5_Witness ==
    /\ op = "get_chapters" /\ pc = "returned"
    /\ \E k \in 1..Len(ret.chapters) :
          /\ Strip(AnchorOfRecord(k).text) # << >>
          /\ MarkerOccurrences(Strip(AnchorOfRecord(k).text)) = {}
          /\ MarkerOccurrences(AnchorOfRecord(k).title) # {}
          /\ ret.chapters[k].chapter_number = MinusOne

\* ---- C1 ----
\* C1: no execution of get_chapter_images ends, by return or by exception,
\* with the browser it launched still open (or its driver still running).
C1_BrowserTornDown ==
    (op = "get_chapter_images" /\ pc \in {"returned", "raised"}) =>
        (browser # "open" /\ driver # "running")

\* an evaluate step failed on a rendered page: the call raised and the
\* browser it had launched is closed
C1_Witness ==
    /\ op = "get_chapter_images" /\ pc = "raised"
    /\ doc.kind = "page"
    /\ ret = RenderError
    /\ browser = "closed"
    /\ driver = "stopped"

\* ---- C10 ----
QualifyingOption(v) == Contains(Strip(v), ".jpg") /\ At(Strip(v), 1, "http")

\* lazy-load attribute preferred over src
PreferredSource(img) ==
    LET lazy == IF img.data_src # << >> THEN img.data_src ELSE img.data_original
    IN  IF lazy # << >> THEN lazy ELSE img.src

QualifyingImg(img) ==
    Contains(PreferredSource(img), ".jpg") /\ ~Contains(PreferredSource(img), "/assets/")

\* the positions of the qualifying options that are the first with their
\* value, in document order
FirstQualifyingOptions(options) ==
    Ascending({ i \in 1..Len(options) :
                  /\ QualifyingOption(options[i])
                  /\ \A j \in 1..(i - 1) :
                        QualifyingOption(options[j]) => Strip(options[j]) # Strip(options[i]) })

\* the positions of the qualifying images that are the first with their
\* source, in DOM order
FirstQualifyingImgs(imgs) ==
    Ascending({ i \in 1..Len(imgs) :
                  /\ QualifyingImg(imgs[i])
                  /\ \A j \in 1..(i - 1) :
                        QualifyingImg(imgs[j]) =>
                            PreferredSource(imgs[j]) # PreferredSource(imgs[i]) })

\* C10: with at least one qualifying option value the result is exactly the
\* qualifying option values, in document order, without duplicates; only
\* otherwise it is the qualifying image sources, in DOM order, without
\* duplicates (empty when there are none).
C10_TwoStepExtraction ==
    (op = "get_chapter_images" /\ pc = "returned") =>
        LET page == doc.page
            opts == FirstQualifyingOptions(page.options)
            imgs == FirstQualifyingImgs(page.imgs)
            urls == ret.image_urls
        IN  /\ \A k, l \in 1..Len(urls) : k # l => urls[k] # urls[l]
            /\ opts # << >> => urls = [k \in 1..Len(opts) |-> Strip(page.options[opts[k]])]
            /\ opts = << >> =>
                  urls = [k \in 1..Len(imgs) |-> PreferredSource(page.imgs[imgs[k]])]

\* no page-selector option and three qualifying images, one of them
\* lazy-loaded: exactly those three URLs
C10_Witness ==
    /\ op = "get_chapter_images" /\ pc = "returned"
    /\ doc.page.options = << >>
    /\ Len(doc.page.imgs) = 3
    /\ \E i \in 1..3 : doc.page.imgs[i].data_src # << >>
    /\ Len(ret.image_urls) = 3

\* ---- C13 ----
\* C13: suffix stripping is idempotent: cleaning a cleaned title, whatever
\* the title (stacked suffixes, a suffix followed by blanks), changes nothing.
C13_CleanTitleIdempotent ==
    (op = "_clean_title" /\ pc = "returned_again") => ret.value = arg.title

\* a cleaned title carries no blank at either end, and cleaning a title
\* that ends in no suffix is stripping it
C13_CleanTitleStripped ==
    (op = "_clean_title" /\ pc = "returned") =>
        /\ ret.value = StripTitle(ret.value)
        /\ (\A n \in 1..Len(TITLE_SUFFIXES) : ~EndsWith(arg.title, TITLE_SUFFIXES[n]))
               => ret.value = StripTitle(arg.title)

\* ---- C14 ----
\* a URL that carries a scheme: letters up to a first ":"
HasScheme(u) == SchemeColon(u) > 0

HasPrefix(u, prefix) ==
    Len(u) >= Len(prefix) /\ SubSeq(u, 1, Len(prefix)) = prefix

\* C14: _abs_url is idempotent, returns a URL that carries a scheme
\* unchanged, and resolves a non-empty relative URL against the base origin.
C14_AbsUrl ==
    /\ (op = "_abs_url" /\ pc = "returned") =>
           /\ HasScheme(arg.url) => ret.value = arg.url
           /\ (arg.url # << >> /\ ~HasScheme(arg.url)) =>
                  HasPrefix(ret.value, BASE_SCHEME \o <<":", "/", "/">>)
    /\ (op = "_abs_url" /\ pc = "returned_again") => ret.value = arg.url

\* the idempotence alone
C14_AbsUrlIdempotent ==
    (op = "_abs_url" /\ pc = "returned_again") => ret.value = arg.url

\* for URLs that do not begin with the letters "http" in either case, the
\* claim's other two parts
C14_AbsUrlOffHttp ==
    (op = "_abs_url" /\ pc = "returned" /\ arg.url # << >>
        /\ arg.url[1] \notin {"http", "HTTP"}) =>
        /\ HasScheme(arg.url) => ret.value = arg.url
        /\ ~HasScheme(arg.url) =>
               HasPrefix(ret.value, BASE_SCHEME \o <<":", "/", "/">>)

\* ---- C11 ----
\* no element of the page matches a selector of get_manga_detail
NoSelectorMatches(soup) ==
    \A i \in 1..Len(soup) :
        /\ ~MatchesTitleSelector(soup[i])
        /\ \A n \in 1..CoverSelectors : ~MatchesCoverSelector(n, soup[i])
        /\ ~MatchesAuthorSelector(soup[i])
        /\ ~MatchesArtistSelector(soup[i])
        /\ ~MatchesDescriptionSelector(soup[i])
        /\ ~(soup[i].tag = "p" /\ TextLen(Strip(soup[i].text)) > 100)
        /\ ~MatchesGenreSelector(soup[i])
        /\ ~MatchesGenreHint(soup[i])
        /\ ~MatchesStatusSelector(soup[i])

\* C11: once the page is fetched get_manga_detail returns, whatever the
\* selectors match (it raises only when the fetch failed); the status is one
\* of ongoing, completed, unknown; and on a page where no selector matches
\* the status is unknown, author, artist and description are absent, genres
\* is empty, and title and cover are empty.
C11_DetailNeverRaises ==
    op = "get_manga_detail" =>
        /\ pc = "raised" => doc = NoDoc
        /\ pc = "returned" =>
               /\ ret.status \in {"ongoing", "completed", "unknown"}
               /\ NoSelectorMatches(doc.soup) =>
                      /\ ret.status = "unknown"
                      /\ ret.author = None
                      /\ ret.artist = None
                      /\ ret.description = None
                      /\ ret.genres = << >>
                      /\ ret.title = << >>
                      /\ ret.cover = << >>

\* a page with elements, none of which a selector matches, was returned
C11_Witness ==
    /\ op = "get_manga_detail"
    /\ pc = "returned"
    /\ Len(doc.soup) = MaxDetailEls
    /\ NoSelectorMatches(doc.soup)

\* ---- C12 ----
\* C12: no returned genre is, in lower case, a word of the non-genre
\* vocabulary, whether the candidates came from the genre selectors or from
\* the genre-name links; the returned genres are the other candidates in
\* their order; the candidates Ongoing, Action give Action.
C12_GenresFiltered ==
    (op = "get_manga_detail" /\ pc = "returned") =>
        LET candidates == GenreCandidates(doc.soup)
            kept == Ascending({ k \in 1..Len(candidates) :
                                  Lower(candidates[k]) \notin NON_GENRE_WORDS })
        IN  /\ \A k \in 1..Len(ret.genres) : Lower(ret.genres[k]) \notin NON_GENRE_WORDS
            /\ ret.genres = [j \in 1..Len(kept) |-> candidates[kept[j]]]
            /\ candidates = << <<"Ongoing">>, <<"Action">> >>
                   => ret.genres = << <<"Action">> >>

\* the candidates Ongoing, Action were filtered
C12_Witness ==
    /\ op = "get_manga_detail"
    /\ pc = "returned"
    /\ GenreCandidates(doc.soup) = << <<"Ongoing">>, <<"Action">> >>
    /\ ret.genres = << <<"Action">> >>

\* a non-genre word that came from the genre-name links was filtered
C12_FallbackWitness ==
    /\ op = "get_manga_detail"
    /\ pc = "returned"
    /\ \A i \in 1..Len(doc.soup) : ~MatchesGenreSelector(doc.soup[i])
    /\ GenreCandidates(doc.soup) = << <<"Manhwa">>, <<"Action">> >>
    /\ ret.genres = << <<"Action">> >>

\* ---- C15 ----
\* what a call returns when it runs alone and gets the same answer
AloneResult(call) ==
    IF call.op = "get_chapter_images" THEN ImagesOf(call.resp.page)
    ELSE ResultOf(call.op, call.url, call.resp.body)

\* C15: two calls on distinct URLs share no state: every step, a failure
\* included, changes the state of one call only, so a failing call aborts
\* no other; and a call that returns returns what it would have returned
\* alone, given the answer to its own request.
C15_CallsIsolated ==
    [][ /\ \E c \in CallIds : \A d \in CallIds \ {c} : calls'[d] = calls[d]
        /\ \A c \in CallIds :
               calls'[c].pc = "returned" => calls'[c].ret = AloneResult(calls'[c])
      ]_vars

\* one call failed while the other was in flight, and the other returned;
\* both ran the same operation and got different answers
C15_Witness ==
    /\ calls # << >>
    /\ \E c \in CallIds, d \in CallIds :
           /\ c # d
           /\ calls[c].pc = "raised"
           /\ calls[d].pc = "returned"
           /\ calls[c].op = calls[d].op
           /\ calls[c].resp # NoDoc
           /\ calls[d].ret = AloneResult(calls[d])

MarkHandlers == {"mark_read", "mark_previous_read"}

\* the highest chapter number among the read chapters, 0 if none
HighestRead ==
    Max({0} \cup { site[i].chapter_number :
                     i \in { k \in 1..Len(site) : site[k].url \in chapter_status } })

\* request r takes the step that resumes its recalculation
Recalculates(r) ==
    /\ reqs[r].pc = "resumed"
    /\ reqs[r].handler \in MarkHandlers
    /\ reqs'[r] # reqs[r]

\* C17: when concurrent mark requests on an existing entry have all
\* completed (their chapter lists fetched), current_chapter is the highest
\* chapter number among the read chapters: no recalculation that read the
\* table before another request's upsert overwrites the later result.
C17_ProgressIsHighestRead ==
    (/\ reqs # << >>
     /\ library # NoEntry
     /\ \A r \in ReqIds : /\ reqs[r].pc = "done"
                          /\ reqs[r].handler \in MarkHandlers
                          /\ reqs[r].fetched = "ok")
        => library.current_chapter = HighestRead

\* a recalculation whose fetch succeeded writes the highest number among
\* the chapters it found read when it started
C17_WritesItsSnapshot ==
    [][ \A r \in ReqIds :
            (Recalculates(r) /\ reqs[r].fetched = "ok" /\ library # NoEntry) =>
                library'.current_chapter = MaxChapter(reqs[r].read_urls, site) ]_vars

\* ---- C18 ----
\* C18: when the chapter-list fetch of a recalculation fails, the entry's
\* current_chapter and status stay as they were: stored progress (an entry
\* with current_chapter above 0) is not lowered, a completed entry is not
\* turned into a reading one.
C18_FetchFailureKeepsEntry ==
    [][ \A r \in ReqIds :
            (Recalculates(r) /\ reqs[r].fetched = "raise" /\ library # NoEntry
                /\ library.current_chapter > 0) =>
                /\ library'.current_chapter = library.current_chapter
                /\ library'.status = library.status ]_vars

\* ---- C19 ----
\* C19: a recalculation after a request that unmarked a read chapter turns
\* a completed entry (one with progress, its chapter list fetched) into a
\* reading one, and leaves every other status as it was.
C19_UnmarkReopensCompleted ==
    [][ \A r \in ReqIds :
            (Recalculates(r) /\ reqs[r].fetched = "ok" /\ library # NoEntry
                /\ library.current_chapter > 0) =>
                /\ (library.status = "completed" /\ reqs[r].unmarked)
                       => library'.status = "reading"
                /\ library.status # "completed"
                       => library'.status = library.status ]_vars

\* a recalculation never changes a status other than completed
C19_OtherStatusesKept ==
    [][ \A r \in ReqIds :
            (Recalculates(r) /\ library # NoEntry /\ library.status # "completed") =>
                library'.status = library.status ]_vars

\* ---- C20 ----
\* C20: the current_chapter the server computes is never negative: the -1
\* of a chapter without a number is never stored.
C20_ProgressNonNegative ==
    (reqs # << >> /\ library # NoEntry) => library.current_chapter >= 0

\* what _recalc_progress and the auto-add store is never negative
C20_RecalcNonNegative ==
    [][ \A r \in ReqIds :
            (reqs[r].handler \in MarkHandlers
                /\ reqs[r].pc \in {"resumed", "get_manga_detail"}
                /\ reqs'[r] # reqs[r] /\ library' # NoEntry
                /\ library' # library) => library'.current_chapter >= 0 ]_vars
====
